---- MODULE Spec2Model ----
(***************************************************************************)
(* Dendrogram core of bolivia_estructura: the linkage-to-tree builder and  *)
(* the cluster assigner of app/src/hooks/useDendrogram.ts.                 *)
(*                                                                         *)
(* Node objects are modelled by their ids (every TreeNode the builder      *)
(* creates has an id of its own, the key it is stored under), so a         *)
(* children list is a sequence of ids and a parent reference is an id.     *)
(* Distances and thresholds are floats in the code and small integers      *)
(* here; only their order is read.                                         *)
(***************************************************************************)
EXTENDS Integers, Sequences, FiniteSets, TLC

VARIABLES
    labels,         \* DendrogramData.labels: the leaf names
    linkage,        \* DendrogramData.linkage: rows <<left, right, distance, count>>
    pc,             \* "input" | "built" | "error" | "clustered" | "reclustered"
    treeData,       \* what buildTree (and then assignClusters) produced
    cutThreshold,   \* the threshold of the last assignClusters call
    clusterCount,   \* what the last assignClusters call returned
    clusterRoots,   \* the nodes traverse() found to be cluster roots, in order
    prevThreshold,  \* the threshold of the call before the last
    prevTreeData,   \* the tree of the call before the last
    prevCount,      \* the count returned by the call before the last
    csvRows,              \* csvParseRows(csvText): the raw grid of a matrix file
    layout,               \* detectMatrixLayout(csvRows)
    parsedScores,         \* parseScoreMatrix's {labels, matrix}
    parsedExplanations,   \* parseExplanationMatrix's {labels, matrix}
    appParsedScores,      \* the same two, by the parsers of app/src/App.tsx
    appParsedExplanations,
    canonicalLabels,      \* the target labels of the alignment
    alignedScores,        \* alignNumericMatrixByLabels's result
    alignedExplanations,  \* alignTextMatrixByLabels's result
    explanation,          \* getPairLabelsFromExplanation: the explanation text
    catalog,              \* ... its catalog (NoCatalog when none is passed)
    defaultLabels,        \* ... its <<defaultRowLabel, defaultColLabel>>
    pairLabels,           \* ... its result <<rowLabel, colLabel>>
    loadPc,               \* loadLocalData: where each run stands
    parsedTree,           \* ... each run's local parsed (the tree artifact)
    overlap,              \* history: a run was started while another was in flight
    data,                 \* useDendrogram's data state
    dataLoad,             \* history: the run whose setData wrote data (0: none)
    hasData,              \* App state
    isLoading,
    loadError,
    pairwiseError,
    scoreMatrix,
    explanationMatrix,
    pairwiseLabels,
    matrixLoad,           \* history: the run that last wrote the three above
    selectedClusterId,    \* ClusterHeatmaps state
    selectedCell          \* ... the pinned cell

treeVars == <<labels, linkage, treeData, cutThreshold, clusterCount,
              clusterRoots, prevThreshold, prevTreeData, prevCount>>
matrixVars == <<csvRows, layout, parsedScores, parsedExplanations, appParsedScores,
                appParsedExplanations, canonicalLabels, alignedScores,
                alignedExplanations>>
explanationVars == <<explanation, catalog, defaultLabels, pairLabels>>

loaderVars == <<loadPc, parsedTree, overlap, data, dataLoad, hasData, isLoading,
                loadError, pairwiseError, scoreMatrix, explanationMatrix,
                pairwiseLabels, matrixLoad>>
heatmapVars == <<selectedClusterId, selectedCell>>
viewVars == <<loaderVars, heatmapVars>>

vars == <<pc, treeVars, matrixVars, explanationVars, viewVars>>

(***************************************************************************)
(* Bounds                                                                  *)
(***************************************************************************)
MaxN == 3        \* at most this many labels (leaves)
MaxDist == 2     \* merge distances range over 0..MaxDist

\* An optional field that is absent (parent?, clusterId?, a missing Map entry).
Undefined == -1

Range(s) == {s[k] : k \in 1..Len(s)}

(***************************************************************************)
(* buildTree                                                               *)
(***************************************************************************)
\* The leaf created for label index i (0-based).
LeafNode(i, lbls) ==
    [id |-> i, name |-> lbls[i + 1], distance |-> 0, count |-> 1,
     children |-> <<>>, parent |-> Undefined, clusterId |-> Undefined]

\* The Map after the leaf loop: keys 0..n-1.
leafNodes(lbls) == [i \in 0..(Len(lbls) - 1) |-> LeafNode(i, lbls)]

\* nodes.get(id): the key's node id, or Undefined when the Map has no such key.
nodesGet(nodes, id) == IF id \in DOMAIN nodes THEN id ELSE Undefined

\* Mutant of setParent: a missing node is skipped (node?.parent = newNode).
setParentMissingOk(nodes, child, parentId) ==
    IF child = Undefined THEN [threw |-> FALSE, nodes |-> nodes]
    ELSE [threw |-> FALSE, nodes |-> [nodes EXCEPT ![child].parent = parentId]]

\* node.parent = newNode; assigning a property of undefined throws.
setParent(nodes, child, parentId) ==
    IF child = Undefined THEN [threw |-> TRUE, nodes |-> nodes]
    ELSE [threw |-> FALSE, nodes |-> [nodes EXCEPT ![child].parent = parentId]]

\* Mutant of newNode: both children are looked up under left.
newNodeLeftTwice(n, i, row, nodes) ==
    [id |-> n + i, name |-> Undefined, distance |-> row[3], count |-> row[4],
     children |-> <<nodesGet(nodes, row[1]), nodesGet(nodes, row[1])>>,
     parent |-> Undefined, clusterId |-> Undefined]

\* Mutant of newNode: the row is destructured as [left, right, count, distance].
newNodeColumnsSwapped(n, i, row, nodes) ==
    [id |-> n + i, name |-> Undefined, distance |-> row[4], count |-> row[3],
     children |-> <<nodesGet(nodes, row[1]), nodesGet(nodes, row[2])>>,
     parent |-> Undefined, clusterId |-> Undefined]

\* The internal node of step i, as the object literal builds it.
newNode(n, i, row, nodes) ==
    [id |-> n + i, name |-> Undefined, distance |-> row[3], count |-> row[4],
     children |-> <<nodesGet(nodes, row[1]), nodesGet(nodes, row[2])>>,
     parent |-> Undefined, clusterId |-> Undefined]

\* Mutant of linkageStep: rightNode.parent is never set.
linkageStepOnlyLeftParent(nodes, n, i, row) ==
    LET nn == newNode(n, i, row, nodes)
        l  == setParent(nodes, nodesGet(nodes, row[1]), n + i)
        r  == IF nodesGet(nodes, row[2]) = Undefined
              THEN [threw |-> TRUE, nodes |-> l.nodes] ELSE l
    IN  IF l.threw \/ r.threw THEN [threw |-> TRUE, nodes |-> nodes]
        ELSE [threw |-> FALSE,
              nodes |-> [k \in (DOMAIN r.nodes) \cup {n + i} |->
                            IF k = n + i THEN nn ELSE r.nodes[k]]]

\* One iteration of the linkage loop: [threw, nodes]. The left child's parent
\* is set before the right child's; either assignment throws on a missing node.
linkageStep(nodes, n, i, row) ==
    LET nn == newNode(n, i, row, nodes)
        l  == setParent(nodes, nodesGet(nodes, row[1]), n + i)
        r  == IF l.threw THEN l
              ELSE setParent(l.nodes, nodesGet(nodes, row[2]), n + i)
    IN  IF l.threw \/ r.threw THEN [threw |-> TRUE, nodes |-> nodes]
        ELSE [threw |-> FALSE,
              nodes |-> [k \in (DOMAIN r.nodes) \cup {n + i} |->
                            IF k = n + i THEN nn ELSE r.nodes[k]]]

\* The linkage loop from step i on.
RECURSIVE linkageLoop(_, _, _, _)
linkageLoop(nodes, lnk, n, i) ==
    IF i = Len(lnk) THEN [threw |-> FALSE, nodes |-> nodes]
    ELSE LET s == linkageStep(nodes, n, i, lnk[i + 1])
         IN  IF s.threw THEN s ELSE linkageLoop(s.nodes, lnk, n, i + 1)

\* buildTree(linkage, labels): the root and the nodes reachable through it, or
\* the TypeError that leaves the caller with no tree.
NoTree == [status |-> "error", nodes |-> <<>>, root |-> Undefined]

buildTree(lnk, lbls) ==
    LET n == Len(lbls)
        b == linkageLoop(leafNodes(lbls), lnk, n, 0)
    IN  IF b.threw THEN NoTree
        ELSE [status |-> "ok", nodes |-> b.nodes,
              root |-> nodesGet(b.nodes, n + Len(lnk) - 1)]

(***************************************************************************)
(* assignClusters                                                          *)
(***************************************************************************)
RECURSIVE assignToAllDescendants(_, _, _)
RECURSIVE forEachAssign(_, _, _, _)
RECURSIVE traverse(_, _, _)
RECURSIVE forEachTraverse(_, _, _, _)
RECURSIVE forEachTraverseReversed(_, _, _, _)

\* Mutant of assignToAllDescendants: the children are not visited.
assignToAllDescendantsNodeOnly(nodes, node, cid) ==
    [nodes EXCEPT ![node].clusterId = cid]

\* node.clusterId = cid, then the same for every child.
assignToAllDescendants(nodes, node, cid) ==
    forEachAssign([nodes EXCEPT ![node].clusterId = cid],
                  nodes[node].children, 1, cid)

\* node.children.forEach(child => assignToAllDescendants(child, cid))
forEachAssign(nodes, children, k, cid) ==
    IF k > Len(children) THEN nodes
    ELSE forEachAssign(assignToAllDescendants(nodes, children[k], cid),
                       children, k + 1, cid)

\* Mutants of isClusterRoot: a strict comparison, a reversed one, and one that
\* is off by one.
isClusterRootStrict(node, threshold) ==
    Len(node.children) = 0 \/ node.distance < threshold

isClusterRootFlipped(node, threshold) ==
    Len(node.children) = 0 \/ node.distance >= threshold

isClusterRootOffByOne(node, threshold) ==
    Len(node.children) = 0 \/ node.distance - 1 <= threshold

\* isLeaf || node.distance <= threshold
isClusterRoot(node, threshold) ==
    Len(node.children) = 0 \/ node.distance <= threshold

\* st = [nodes, clusterId, roots]: the tree being labelled, the next fresh
\* id, and the cluster roots found so far.
traverse(st, node, threshold) ==
    IF isClusterRoot(st.nodes[node], threshold)
    THEN [nodes    |-> assignToAllDescendants(st.nodes, node, st.clusterId),
          clusterId |-> st.clusterId + 1,
          roots    |-> Append(st.roots, node)]
    ELSE forEachTraverse(st, st.nodes[node].children, 1, threshold)

\* A mutant of forEachTraverse: the last child is traversed first.
forEachTraverseReversed(st, children, k, threshold) ==
    IF k > Len(children) THEN st
    ELSE forEachTraverseReversed(
             traverse(st, children[Len(children) - k + 1], threshold),
             children, k + 1, threshold)

\* children.forEach(traverse)
forEachTraverse(st, children, k, threshold) ==
    IF k > Len(children) THEN st
    ELSE forEachTraverse(traverse(st, children[k], threshold),
                         children, k + 1, threshold)

\* assignClusters(root, threshold): the labelled nodes, the returned count
\* (clusterId) and the cluster roots.
assignClusters(tree, threshold) ==
    traverse([nodes |-> tree.nodes, clusterId |-> 0, roots |-> <<>>],
             tree.root, threshold)

(***************************************************************************)
(* Inputs                                                                  *)
(***************************************************************************)
LabelLists == {[k \in 1..n |-> k] : n \in 1..MaxN}

\* Ids a row of step i may name: every key the Map holds then (0..n+i-1),
\* one id below and one id above them.
RefIds(n, i) == (-1)..(n + i)

\* Linkages of steps i..len-1 naming any ids of RefIds; distance and count,
\* which no reference depends on, are held at one value.
RECURSIVE RefLinkages(_, _, _)
RefLinkages(n, i, len) ==
    IF i = len THEN {<<>>}
    ELSE {<<(<<l, r, 0, 1>>)>> \o rest :
            l \in RefIds(n, i), r \in RefIds(n, i),
            rest \in RefLinkages(n, i + 1, len)}

\* Merge sequences: step i joins two different nodes not yet joined (avail),
\* at a distance of D. The count column is filled in afterwards.
RECURSIVE MergeLinkages(_, _, _, _, _)
MergeLinkages(n, i, len, avail, D) ==
    IF i = len THEN {<<>>}
    ELSE UNION {
           {<<(<<p[1], p[2], d, 0>>)>> \o rest :
              d \in D,
              rest \in MergeLinkages(n, i + 1, len,
                                     (avail \ {p[1], p[2]}) \cup {n + i}, D)}
           : p \in {q \in avail \X avail : q[1] # q[2]} }

\* The size of the subtree an id names, per the count column.
sizeOf(lnk, n, id) == IF id < n THEN 1 ELSE lnk[id - n + 1][4]

\* The count column as the clustering library writes it: the sum of the two
\* merged clusters' sizes.
RECURSIVE withCounts(_, _, _)
withCounts(lnk, n, i) ==
    IF i = Len(lnk) THEN lnk
    ELSE LET row == lnk[i + 1]
             c   == sizeOf(lnk, n, row[1]) + sizeOf(lnk, n, row[2])
         IN  withCounts([lnk EXCEPT ![i + 1][4] = c], n, i + 1)

\* The count column set to cs.
setCounts(lnk, cs) == [k \in 1..Len(lnk) |-> [lnk[k] EXCEPT ![4] = cs[k]]]

(***************************************************************************)
(* The build specification: buildTree over arbitrary references            *)
(***************************************************************************)
\* No matrix file has been parsed or aligned.
NoMatrix == [labels |-> <<>>, matrix |-> <<>>]

\* The layout of no rows at all.
NoLayout == [labels |-> <<>>, dataRows |-> <<>>, rowLabelColumn |-> 0,
             firstDataColumn |-> 0]

\* A field of the parsed tree artifact: an array, or absent.
JArray(items) == [kind |-> "array", items |-> items]
JMissing == [kind |-> "undefined", items |-> <<>>]

\* useState<DendrogramData | null>(null), and a DendrogramData.
NoData == [given |-> FALSE, linkage |-> JMissing, labels |-> JMissing]
Data(lnk, lbls) == [given |-> TRUE, linkage |-> lnk, labels |-> lbls]

\* useState<number[][] | null>(null), and a matrix.
NullMatrix == [isNull |-> TRUE, rows |-> <<>>]
Matrix(rows) == [isNull |-> FALSE, rows |-> rows]

\* useState<string | null>(null)
NullMessage == "null"

\* useState<number | null>(null) and useState<HoveredCell | null>(null)
NullId == Undefined
NullCell == [given |-> FALSE, rowIdx |-> Undefined, colIdx |-> Undefined]

\* No load has run and no heat map is mounted.
ViewIdle ==
    /\ loadPc = <<>>
    /\ parsedTree = <<>>
    /\ overlap = FALSE
    /\ data = NoData
    /\ dataLoad = 0
    /\ hasData = FALSE
    /\ isLoading = FALSE
    /\ loadError = NullMessage
    /\ pairwiseError = NullMessage
    /\ scoreMatrix = NullMatrix
    /\ explanationMatrix = NullMatrix
    /\ pairwiseLabels = <<>>
    /\ matrixLoad = 0
    /\ selectedClusterId = NullId
    /\ selectedCell = NullCell

MatrixIdle ==
    /\ csvRows = <<>>
    /\ layout = NoLayout
    /\ parsedScores = NoMatrix
    /\ parsedExplanations = NoMatrix
    /\ appParsedScores = NoMatrix
    /\ appParsedExplanations = NoMatrix
    /\ canonicalLabels = <<>>
    /\ alignedScores = <<>>
    /\ alignedExplanations = <<>>

\* A catalog argument: given, with its labels, or not passed at all.
NoCatalog == [given |-> FALSE, labels |-> <<>>]
Catalog(labelList) == [given |-> TRUE, labels |-> labelList]

\* No explanation has been looked at.
ExplanationIdle ==
    /\ explanation = <<>>
    /\ catalog = NoCatalog
    /\ defaultLabels = <<>>
    /\ pairLabels = <<>>

InitCommon ==
    /\ pc = "input"
    /\ MatrixIdle
    /\ ExplanationIdle
    /\ ViewIdle
    /\ treeData = NoTree
    /\ cutThreshold = Undefined
    /\ clusterCount = 0
    /\ clusterRoots = <<>>
    /\ prevThreshold = Undefined
    /\ prevTreeData = NoTree
    /\ prevCount = 0

InitBuild ==
    /\ labels \in LabelLists
    /\ linkage \in RefLinkages(Len(labels), 0, Len(labels) - 1)
    /\ InitCommon

\* const tree = buildTree(data.linkage, data.labels)
BuildTree ==
    /\ pc = "input"
    /\ treeData' = buildTree(linkage, labels)
    /\ pc' = IF treeData'.status = "ok" THEN "built" ELSE "error"
    /\ UNCHANGED <<labels, linkage, cutThreshold, clusterCount, clusterRoots,
                   prevThreshold, prevTreeData, prevCount>>
    /\ UNCHANGED <<matrixVars, explanationVars, viewVars>>

NextBuild == BuildTree

SpecBuild == InitBuild /\ [][NextBuild]_vars

(***************************************************************************)
(* The count specification: buildTree over merge sequences whose count     *)
(* column is arbitrary                                                     *)
(***************************************************************************)
InitCount ==
    /\ labels \in LabelLists
    /\ linkage \in
         {setCounts(s, cs) :
            s \in MergeLinkages(Len(labels), 0, Len(labels) - 1,
                                0..(Len(labels) - 1), {0}),
            cs \in [1..(Len(labels) - 1) -> 1..Len(labels)]}
    /\ InitCommon

SpecCount == InitCount /\ [][NextBuild]_vars

(***************************************************************************)
(* The cluster specification: the treeData memo (buildTree, then           *)
(* assignClusters) recomputed for one threshold after another              *)
(***************************************************************************)
Thresholds == (-1)..MaxDist

InitCluster ==
    /\ labels \in LabelLists
    /\ linkage \in
         {withCounts(s, Len(labels), 0) :
            s \in MergeLinkages(Len(labels), 0, Len(labels) - 1,
                                0..(Len(labels) - 1), 0..MaxDist)}
    /\ InitCommon

\* The treeData memo (useMemo over data and cutThreshold): it runs on the
\* first render and again when cutThreshold has changed; each run builds a
\* fresh tree and labels it. The tree of the run before is kept for
\* comparison. Two runs reach every pair (previous, current) of thresholds, so
\* a behaviour stops after the second.
TreeDataMemo(t) ==
    /\ pc \in {"input", "clustered"}
    /\ pc = "clustered" => t # cutThreshold
    /\ \E tree \in {buildTree(linkage, labels)} :
          IF tree.status # "ok"
          THEN /\ pc' = "error"
               /\ treeData' = NoTree
               /\ UNCHANGED <<clusterCount, clusterRoots>>
          ELSE \E r \in {assignClusters(tree, t)} :
                  /\ pc' = IF pc = "input" THEN "clustered" ELSE "reclustered"
                  /\ treeData' = [tree EXCEPT !.nodes = r.nodes]
                  /\ clusterCount' = r.clusterId
                  /\ clusterRoots' = r.roots
    /\ cutThreshold' = t
    /\ prevThreshold' = cutThreshold
    /\ prevTreeData' = treeData
    /\ prevCount' = clusterCount
    /\ UNCHANGED <<labels, linkage>>
    /\ UNCHANGED <<matrixVars, explanationVars, viewVars>>

NextCluster == \E t \in Thresholds : TreeDataMemo(t)

SpecCluster == InitCluster /\ [][NextCluster]_vars

(***************************************************************************)
(* The length specification: buildTree over linkages of any length from 0  *)
(* to n steps (n-1 is the length that fits n labels)                       *)
(***************************************************************************)
\* Merge sequences cut short after len <= n-1 steps, and full merge sequences
\* followed by one more row naming any two existing nodes.
LenLinkages(n) ==
    LET short == UNION {MergeLinkages(n, 0, len, 0..(n - 1), {0}) :
                          len \in 0..(n - 1)}
        long  == {Append(s, <<l, r, 0, 0>>) :
                    s \in MergeLinkages(n, 0, n - 1, 0..(n - 1), {0}),
                    l \in 0..(2 * n - 2), r \in 0..(2 * n - 2)}
    IN  {withCounts(s, n, 0) : s \in short \cup long}

InitLen ==
    /\ labels \in LabelLists
    /\ linkage \in LenLinkages(Len(labels))
    /\ InitCommon

SpecLen == InitLen /\ [][NextBuild]_vars

(***************************************************************************)
(* Properties of the input and of the built structure                      *)
(***************************************************************************)
N == Len(labels)

\* Step i names only ids the Map holds at step i: leaves < n, synthetic < n+i.
RefValid(lnk, n) ==
    \A k \in 1..Len(lnk) :
        /\ lnk[k][1] \in 0..(n + k - 2)
        /\ lnk[k][2] \in 0..(n + k - 2)

\* No id is named twice in the whole linkage (a merge sequence).
EachOnce(lnk) ==
    \A k1, k2 \in 1..Len(lnk) : \A c1, c2 \in 1..2 :
        lnk[k1][c1] = lnk[k2][c2] => (k1 = k2 /\ c1 = c2)

\* Every step's count is the sum of the sizes of the two nodes it names.
CountsAdd(lnk, n) ==
    \A k \in 1..Len(lnk) :
        lnk[k][4] = sizeOf(lnk, n, lnk[k][1]) + sizeOf(lnk, n, lnk[k][2])

\* The nodes met from x through children links.
RECURSIVE reachable(_, _)
reachable(nodes, x) ==
    {x} \cup UNION {reachable(nodes, c) : c \in Range(nodes[x].children)}

Nodes(t) == reachable(t.nodes, t.root)
IsLeaf(t, x) == Len(t.nodes[x].children) = 0
Leaves(t) == {x \in Nodes(t) : IsLeaf(t, x)}
Internal(t) == {x \in Nodes(t) : ~IsLeaf(t, x)}

\* The places (node, position) whose children entry is x.
ChildSlots(t, x) ==
    {s \in Nodes(t) \X {1, 2} :
        /\ s[2] <= Len(t.nodes[s[1]].children)
        /\ t.nodes[s[1]].children[s[2]] = x}

\* Every node but the root is the child of one node, once, and that node is
\* its parent; the root has no parent.
IsTreeShape(t) ==
    /\ t.nodes[t.root].parent = Undefined
    /\ \A x \in Nodes(t) \ {t.root} :
          /\ Cardinality(ChildSlots(t, x)) = 1
          /\ \A s \in ChildSlots(t, x) : t.nodes[x].parent = s[1]

(***************************************************************************)
(* C1 *)
(***************************************************************************)
\* C1 as stated: for every linkage of n-1 steps whose step i names only ids
\* below n+i, the returned tree has n leaves and n-1 internal nodes reachable
\* from the root.
C1_AsStated ==
    (pc = "built" /\ RefValid(linkage, N)) =>
        /\ Cardinality(Leaves(treeData)) = N
        /\ Cardinality(Internal(treeData)) = N - 1

\* C1 amended: the same, for linkages that also name no id twice.
C1_LeavesAndInternal ==
    (pc = "built" /\ RefValid(linkage, N) /\ EachOnce(linkage)) =>
        /\ Cardinality(Leaves(treeData)) = N
        /\ Cardinality(Internal(treeData)) = N - 1

C1_Witness ==
    /\ pc = "built" /\ N = MaxN
    /\ RefValid(linkage, N) /\ EachOnce(linkage)
    /\ Cardinality(Leaves(treeData)) = N

(***************************************************************************)
(* C8 *)
(***************************************************************************)
\* C8 as stated: for every linkage of n-1 steps (here: every merge sequence),
\* the root's count is n.
C8_AsStated ==
    pc = "built" => treeData.nodes[treeData.root].count = N

\* C8 amended: the root's count is n when every step's count column holds the
\* sum of the sizes of the two nodes the step merges; the builder copies the
\* column and computes nothing.
C8_RootCount ==
    (pc = "built" /\ RefValid(linkage, N) /\ EachOnce(linkage)
        /\ CountsAdd(linkage, N)) =>
        treeData.nodes[treeData.root].count = N

C8_Witness ==
    /\ pc = "built" /\ N = MaxN
    /\ EachOnce(linkage) /\ CountsAdd(linkage, N)
    /\ treeData.nodes[treeData.root].count = MaxN

(***************************************************************************)
(* C9 *)
(***************************************************************************)
\* C9 as stated: in every tree buildTree returns, each node but the root is in
\* one children list, once, its parent is that node, and the root has no parent.
C9_AsStated ==
    pc = "built" => IsTreeShape(treeData)

\* C9 amended: the same, for linkages that name no id twice.
C9_TreeShape ==
    (pc = "built" /\ EachOnce(linkage)) => IsTreeShape(treeData)

C9_Witness ==
    /\ pc = "built" /\ N = MaxN /\ EachOnce(linkage)
    /\ \E x \in Internal(treeData) : treeData.nodes[x].parent # Undefined

(***************************************************************************)
(* C10 *)
(***************************************************************************)
\* C10: when some step names an id that is neither a leaf id nor an id made by
\* an earlier step, buildTree throws and the caller gets no tree at all.
C10_MalformedThrows ==
    (pc # "input" /\ ~RefValid(linkage, N)) =>
        (pc = "error" /\ treeData = NoTree)

\* The throw comes after an earlier step was built and after the failing
\* step's left child got its parent.
C10_Witness ==
    /\ pc = "error" /\ Len(linkage) >= 2
    /\ linkage[1][1] \in 0..(N - 1) /\ linkage[1][2] \in 0..(N - 1)
    /\ linkage[2][1] \in 0..N /\ linkage[2][2] \notin 0..N

(***************************************************************************)
(* Properties of a labelled tree                                           *)
(***************************************************************************)
\* The proper ancestors of x, along parent references.
RECURSIVE ancestors(_, _)
ancestors(nodes, x) ==
    IF nodes[x].parent = Undefined THEN {}
    ELSE {nodes[x].parent} \cup ancestors(nodes, nodes[x].parent)

Cid(t, x) == t.nodes[x].clusterId
Dist(t, x) == t.nodes[x].distance
\* assignClusters has returned; HasPrev: for the second time.
Clustered == pc \in {"clustered", "reclustered"}
HasPrev == pc = "reclustered"
AllMergesPositive(t) == \A x \in Internal(t) : Dist(t, x) > 0
\* Some merge is farther than the merge above it.
NonMonotone(t) ==
    \E x \in Internal(t) \ {t.root} : Dist(t, x) > Dist(t, t.nodes[x].parent)

(***************************************************************************)
(* C2 *)
(***************************************************************************)
\* C2: the nodes given a fresh id are exactly those that are a leaf or at
\* distance <= t and have no proper ancestor at distance <= t; the whole
\* subtree of such a node carries its id, and two of them never share an id.
C2_ClusterRoots ==
    Clustered =>
        LET t == treeData
            R == Range(clusterRoots)
        IN  /\ \A x \in Nodes(t) :
                  (x \in R) <=>
                      /\ (IsLeaf(t, x) \/ Dist(t, x) <= cutThreshold)
                      /\ \A a \in ancestors(t.nodes, x) :
                            Dist(t, a) > cutThreshold
            /\ \A r \in R : \A x \in reachable(t.nodes, r) :
                  Cid(t, x) = Cid(t, r)
            /\ \A r1, r2 \in R : r1 # r2 => Cid(t, r1) # Cid(t, r2)
            /\ Cardinality(R) = Len(clusterRoots)

C2_Witness ==
    /\ Clustered /\ N = MaxN
    /\ \E r \in Range(clusterRoots) :
          ~IsLeaf(treeData, r) /\ r # treeData.root
    /\ \E r \in Range(clusterRoots) :
          IsLeaf(treeData, r) /\ Cid(treeData, r) > 0

(***************************************************************************)
(* C3 *)
(***************************************************************************)
\* C3 as stated: after assignClusters every node reachable from the root,
\* internal nodes above the cut included, has a defined clusterId.
C3_AsStated ==
    Clustered =>
        \A x \in Nodes(treeData) : Cid(treeData, x) # Undefined

\* C3 amended: a node is left without a clusterId exactly when it is an
\* internal node whose own distance and whose ancestors' distances all exceed
\* the threshold; every leaf and every node at or below a cluster root has one.
C3_DefinedBelowCut ==
    Clustered =>
        \A x \in Nodes(treeData) :
            (Cid(treeData, x) = Undefined) <=>
                /\ ~IsLeaf(treeData, x)
                /\ Dist(treeData, x) > cutThreshold
                /\ \A a \in ancestors(treeData.nodes, x) :
                      Dist(treeData, a) > cutThreshold

C3_Witness ==
    /\ Clustered
    /\ \E x \in Internal(treeData) : Cid(treeData, x) = Undefined
    /\ \E y \in Internal(treeData) :
          /\ Cid(treeData, y) # Undefined
          /\ \A l \in Leaves(treeData) : Cid(treeData, l) # Undefined

(***************************************************************************)
(* C4 *)
(***************************************************************************)
\* C4: when the threshold rises from t1 to t2 > t1, two leaves that shared a
\* cluster at t1 share one at t2, and the count does not grow; merge distances
\* need not be monotone along the tree.
C4_Coarsening ==
    (Clustered /\ HasPrev /\ prevThreshold < cutThreshold) =>
        /\ \A a, b \in Leaves(treeData) :
              Cid(prevTreeData, a) = Cid(prevTreeData, b) =>
                  Cid(treeData, a) = Cid(treeData, b)
        /\ clusterCount <= prevCount

C4_Witness ==
    /\ Clustered /\ HasPrev /\ prevThreshold < cutThreshold
    /\ NonMonotone(treeData)
    /\ \E a, b \in Leaves(treeData) :
          /\ a # b
          /\ Cid(prevTreeData, a) = Cid(prevTreeData, b)
          /\ Cid(treeData, a) = Cid(treeData, b)

(***************************************************************************)
(* C5 *)
(***************************************************************************)
\* C5: with every merge distance > 0, assignClusters(root, 0) returns n and no
\* two leaves share an id.
C5_ThresholdZero ==
    (Clustered /\ cutThreshold = 0 /\ AllMergesPositive(treeData)) =>
        /\ clusterCount = N
        /\ \A a, b \in Leaves(treeData) :
              a # b => Cid(treeData, a) # Cid(treeData, b)

C5_Witness ==
    /\ Clustered /\ cutThreshold = 0 /\ N = MaxN
    /\ AllMergesPositive(treeData)
    /\ clusterCount = MaxN

(***************************************************************************)
(* C6 *)
(***************************************************************************)
\* C6: assignClusters(root, root.distance) returns 1 and every node carries
\* id 0: the comparison with the threshold is inclusive.
C6_ThresholdAtRoot ==
    (Clustered /\ cutThreshold = Dist(treeData, treeData.root)) =>
        /\ clusterCount = 1
        /\ \A x \in Nodes(treeData) : Cid(treeData, x) = 0

C6_Witness ==
    /\ Clustered /\ N = MaxN
    /\ cutThreshold = Dist(treeData, treeData.root)
    /\ cutThreshold > 0
    /\ NonMonotone(treeData)
    /\ clusterCount = 1

(***************************************************************************)
(* C7 *)
(***************************************************************************)
SameLabelling ==
    /\ clusterCount = prevCount
    /\ \A x \in Nodes(treeData) : Cid(treeData, x) = Cid(prevTreeData, x)

\* C7 as stated: with every merge distance >= 0 (as every input here has), a
\* threshold below 0 gives the count and ids that threshold 0 gives.
C7_AsStated ==
    (Clustered /\ HasPrev /\ prevThreshold = 0 /\ cutThreshold < 0) =>
        SameLabelling

\* C7 amended: the same, for trees whose merge distances are all > 0.
C7_NegativeAsZero ==
    (Clustered /\ HasPrev /\ prevThreshold = 0 /\ cutThreshold < 0
        /\ AllMergesPositive(treeData)) =>
        SameLabelling

C7_Witness ==
    /\ Clustered /\ HasPrev /\ prevThreshold = 0 /\ cutThreshold < 0
    /\ AllMergesPositive(treeData) /\ N = MaxN
    /\ clusterCount = MaxN /\ prevCount = MaxN

(***************************************************************************)
(* C11 *)
(***************************************************************************)
\* C11: when the number of linkage steps is not labels.length - 1, buildTree
\* aborts with an error instead of returning a node.
C11_AsStated ==
    (pc # "input" /\ Len(linkage) # N - 1) => pc = "error"

(***************************************************************************)
(* Text.  A string is a sequence of one-character strings, so that trim()  *)
(* is computed.  UndefinedCell is the undefined an absent array element or *)
(* an absent argument reads as.                                            *)
(***************************************************************************)
Whitespace == {" ", "\n", "\r", "\t"}

UndefinedCell == <<"undefined">>

RECURSIVE trimStart(_)
trimStart(s) ==
    IF s # <<>> /\ Head(s) \in Whitespace THEN trimStart(Tail(s)) ELSE s

RECURSIVE trimEnd(_)
trimEnd(s) ==
    IF s # <<>> /\ s[Len(s)] \in Whitespace
    THEN trimEnd(SubSeq(s, 1, Len(s) - 1))
    ELSE s

trim(s) == trimEnd(trimStart(s))

\* row[i] of a JavaScript array, 1-based here: undefined out of range.
arrayGet(row, i) == IF i \in DOMAIN row THEN row[i] ELSE UndefinedCell

\* value?.trim() ?? ''
normalizeLabel(value) == IF value = UndefinedCell THEN <<>> ELSE trim(value)

(***************************************************************************)
(* Numbers of a score matrix: a finite number, NaN, or the undefined of an *)
(* absent element.  Number.isFinite is true of the first only.             *)
(***************************************************************************)
\* A finite number is held as its decimal expansion <<integer part, fraction
\* digits without trailing zeros>>; Whole(i) is the whole number i.
Num(v) == [kind |-> "number", v |-> v]
Whole(i) == Num(<<i, <<>>>>)
NaN == [kind |-> "NaN", v |-> <<0, <<>>>>]
UndefinedNumber == [kind |-> "undefined", v |-> <<0, <<>>>>]
NumberIsFinite(x) == x.kind = "number"

(***************************************************************************)
(* new Map(entries): entries are set in order, so a key that occurs twice  *)
(* keeps the value of its last entry.  Map.get misses with undefined.      *)
(***************************************************************************)
RECURSIVE newMapKeepFirst(_)
\* A mutant of newMap: a key that occurs twice keeps its first value.
newMapKeepFirst(entries) ==
    IF entries = <<>> THEN [k \in {} |-> Undefined]
    ELSE LET last == entries[Len(entries)]
         IN  newMapKeepFirst(SubSeq(entries, 1, Len(entries) - 1))
                 @@ (last[1] :> last[2])

RECURSIVE newMap(_)
newMap(entries) ==
    IF entries = <<>> THEN [k \in {} |-> Undefined]
    ELSE LET last == entries[Len(entries)]
         IN  (last[1] :> last[2])
                 @@ newMap(SubSeq(entries, 1, Len(entries) - 1))

mapGet(m, key) == IF key \in DOMAIN m THEN m[key] ELSE Undefined

\* A mutant of indexByLabel: a label held twice keeps its first position.
indexByLabelFirst(sourceLabels) ==
    newMapKeepFirst([idx \in 1..Len(sourceLabels) |->
                        <<normalizeLabel(sourceLabels[idx]), idx>>])

\* new Map(sourceLabels.map((label, idx) => [normalizeLabel(label), idx])),
\* with the 1-based positions of this module.
indexByLabel(sourceLabels) ==
    newMap([idx \in 1..Len(sourceLabels) |->
                <<normalizeLabel(sourceLabels[idx]), idx>>])

\* sourceMatrix[rowIdx]?.[colIdx]
matrixGet(sourceMatrix, rowIdx, colIdx, undef) ==
    IF rowIdx \in DOMAIN sourceMatrix /\ colIdx \in DOMAIN sourceMatrix[rowIdx]
    THEN sourceMatrix[rowIdx][colIdx]
    ELSE undef

\* A mutant of alignNumericMatrixByLabels: the row and column are swapped.
alignNumericTransposed(sourceLabels, sourceMatrix, targetLabels) ==
    LET index == indexByLabel(sourceLabels)
    IN  [r \in 1..Len(targetLabels) |->
            [c \in 1..Len(targetLabels) |->
                LET rowIdx == mapGet(index, normalizeLabel(targetLabels[r]))
                    colIdx == mapGet(index, normalizeLabel(targetLabels[c]))
                    value  == matrixGet(sourceMatrix, colIdx, rowIdx,
                                        UndefinedNumber)
                IN  IF rowIdx = Undefined \/ colIdx = Undefined THEN NaN
                    ELSE IF NumberIsFinite(value) THEN value ELSE NaN]]

alignNumericMatrixByLabels(sourceLabels, sourceMatrix, targetLabels) ==
    LET index == indexByLabel(sourceLabels)
    IN  [r \in 1..Len(targetLabels) |->
            [c \in 1..Len(targetLabels) |->
                LET rowIdx == mapGet(index, normalizeLabel(targetLabels[r]))
                    colIdx == mapGet(index, normalizeLabel(targetLabels[c]))
                    value  == matrixGet(sourceMatrix, rowIdx, colIdx,
                                        UndefinedNumber)
                IN  IF rowIdx = Undefined \/ colIdx = Undefined THEN NaN
                    ELSE IF NumberIsFinite(value) THEN value ELSE NaN]]

\* A mutant of alignTextMatrixByLabels: a row the source has no label for is
\* left out instead of being filled with ''.
alignTextKnownRowsOnly(sourceLabels, sourceMatrix, targetLabels) ==
    LET index == indexByLabel(sourceLabels)
        known == SelectSeq(targetLabels,
                     LAMBDA l : mapGet(index, normalizeLabel(l)) # Undefined)
    IN  [r \in 1..Len(known) |->
            [c \in 1..Len(targetLabels) |->
                LET rowIdx == mapGet(index, normalizeLabel(known[r]))
                    colIdx == mapGet(index, normalizeLabel(targetLabels[c]))
                    value  == matrixGet(sourceMatrix, rowIdx, colIdx,
                                        UndefinedCell)
                IN  IF rowIdx = Undefined \/ colIdx = Undefined THEN <<>>
                    ELSE IF value = UndefinedCell THEN <<>> ELSE value]]

alignTextMatrixByLabels(sourceLabels, sourceMatrix, targetLabels) ==
    LET index == indexByLabel(sourceLabels)
    IN  [r \in 1..Len(targetLabels) |->
            [c \in 1..Len(targetLabels) |->
                LET rowIdx == mapGet(index, normalizeLabel(targetLabels[r]))
                    colIdx == mapGet(index, normalizeLabel(targetLabels[c]))
                    value  == matrixGet(sourceMatrix, rowIdx, colIdx,
                                        UndefinedCell)
                IN  IF rowIdx = Undefined \/ colIdx = Undefined THEN <<>>
                    ELSE IF value = UndefinedCell THEN <<>> ELSE value]]

(***************************************************************************)
(* The alignment specification: two parsed matrices over the same source   *)
(* labels, of any (ragged) shape, are aligned onto any target labels.      *)
(***************************************************************************)
MaxSide == 2

\* No dendrogram is loaded.
TreeIdle ==
    /\ labels = <<>>
    /\ linkage = <<>>
    /\ treeData = NoTree
    /\ cutThreshold = Undefined
    /\ clusterCount = 0
    /\ clusterRoots = <<>>
    /\ prevThreshold = Undefined
    /\ prevTreeData = NoTree
    /\ prevCount = 0

SeqsUpTo(S, max) == UNION {[1..n -> S] : n \in 0..max}

\* Labels with and without surrounding blanks; the first two trim to "A".
AlignLabels == {<<"A">>, <<" ", "A">>, <<"B", " ">>}

\* The labels of a target: one as the loader trims them, one with a blank.
TargetLabels == {<<"A">>, <<"B", " ">>}

Digits == <<"0", "1", "2", "3", "4", "5", "6", "7", "8", "9">>

\* The cell at (i, j) tells its position; with diag the diagonal is missing.
scoreCell(i, j, diag) == IF diag /\ i = j THEN NaN ELSE Whole(10 * i + j)
textCell(i, j, diag) ==
    IF diag /\ i = j THEN <<>> ELSE <<Digits[i + 1], Digits[j + 1]>>

\* shape[i] is the length of row i.
scoreMatrixOf(shape, diag) ==
    [i \in 1..Len(shape) |-> [j \in 1..shape[i] |-> scoreCell(i, j, diag)]]
textMatrixOf(shape, diag) ==
    [i \in 1..Len(shape) |-> [j \in 1..shape[i] |-> textCell(i, j, diag)]]

InitAlign ==
    /\ pc = "parsed"
    /\ TreeIdle
    /\ ExplanationIdle
    /\ ViewIdle
    /\ csvRows = <<>>
    /\ layout = NoLayout
    /\ appParsedScores = NoMatrix
    /\ appParsedExplanations = NoMatrix
    /\ \E src \in SeqsUpTo(AlignLabels, MaxSide),
          shape \in SeqsUpTo(0..MaxSide, MaxSide), diag \in BOOLEAN :
          /\ parsedScores = [labels |-> src,
                             matrix |-> scoreMatrixOf(shape, diag)]
          /\ parsedExplanations = [labels |-> src,
                                   matrix |-> textMatrixOf(shape, diag)]
    /\ canonicalLabels \in SeqsUpTo(TargetLabels, MaxSide)
    /\ alignedScores = <<>>
    /\ alignedExplanations = <<>>

AlignMatrices ==
    /\ pc = "parsed"
    /\ pc' = "aligned"
    /\ alignedScores' = alignNumericMatrixByLabels(
           parsedScores.labels, parsedScores.matrix, canonicalLabels)
    /\ alignedExplanations' = alignTextMatrixByLabels(
           parsedExplanations.labels, parsedExplanations.matrix,
           canonicalLabels)
    /\ UNCHANGED <<csvRows, layout, parsedScores, parsedExplanations,
                   appParsedScores, appParsedExplanations, canonicalLabels>>
    /\ UNCHANGED <<treeVars, explanationVars, viewVars>>

NextAlign == AlignMatrices

SpecAlign == InitAlign /\ [][NextAlign]_vars

(***************************************************************************)
(* C12 *)
(***************************************************************************)
Aligned == pc = "aligned"

IsSquareOf(m, n) == Len(m) = n /\ \A r \in 1..n : Len(m[r]) = n

\* C12: whatever the source labels, the source matrix (empty, ragged, not
\* square) and the target labels T, both alignments return |T| rows of |T|
\* cells each; no call fails.
C12_Total ==
    Aligned =>
        /\ IsSquareOf(alignedScores, Len(canonicalLabels))
        /\ IsSquareOf(alignedExplanations, Len(canonicalLabels))

\* A ragged source matrix with fewer rows than labels, aligned onto the most
\* target labels, all of them known to the source.
C12_Witness ==
    /\ Aligned
    /\ Len(canonicalLabels) = MaxSide
    /\ Len(parsedScores.labels) = MaxSide
    /\ Len(parsedScores.matrix) < MaxSide
    /\ \E r \in DOMAIN parsedScores.matrix : Len(parsedScores.matrix[r]) = 1
    /\ \A r \in 1..MaxSide :
          normalizeLabel(canonicalLabels[r]) \in DOMAIN indexByLabel(parsedScores.labels)

(***************************************************************************)
(* C13 *)
(***************************************************************************)
SourceLabels == parsedScores.labels

\* The source matrices are |L| x |L| and are aligned onto their own labels.
OntoOwnLabels ==
    /\ Aligned
    /\ canonicalLabels = SourceLabels
    /\ IsSquareOf(parsedScores.matrix, Len(SourceLabels))
    /\ IsSquareOf(parsedExplanations.matrix, Len(SourceLabels))

DistinctTrimmed(lbls) ==
    \A i, j \in DOMAIN lbls :
        normalizeLabel(lbls[i]) = normalizeLabel(lbls[j]) => i = j

RoundTrip ==
    /\ alignedScores = parsedScores.matrix
    /\ alignedExplanations = parsedExplanations.matrix

\* C13 as stated: aligning an |L| x |L| matrix from labels L onto the same L
\* returns the matrix cell by cell, missing cells staying missing.
C13_AsStated == OntoOwnLabels => RoundTrip

\* C13 amended: the same, for labels L that are pairwise distinct after
\* trimming.
C13_RoundTrip ==
    (OntoOwnLabels /\ DistinctTrimmed(SourceLabels)) => RoundTrip

\* A full square matrix with a missing diagonal comes back unchanged.
C13_Witness ==
    /\ OntoOwnLabels /\ DistinctTrimmed(SourceLabels)
    /\ Len(SourceLabels) = MaxSide
    /\ parsedScores.matrix[1][1] = NaN
    /\ parsedExplanations.matrix[1][1] = <<>>
    /\ alignedScores[1][2] = Whole(12)
    /\ alignedScores[2][1] = Whole(21)

(***************************************************************************)
(* C14 *)
(***************************************************************************)
\* The source positions whose label equals l after trimming both.
Matches(l) ==
    {i \in DOMAIN SourceLabels : trim(SourceLabels[i]) = trim(l)}

\* idx: the last such position.
idx(l) == CHOOSE i \in Matches(l) : \A j \in Matches(l) : j <= i

\* The source cell, a cell the source matrix does not have being missing.
SourceScore(i, j) ==
    IF i \in DOMAIN parsedScores.matrix /\ j \in DOMAIN parsedScores.matrix[i]
    THEN parsedScores.matrix[i][j] ELSE NaN
SourceText(i, j) ==
    IF i \in DOMAIN parsedExplanations.matrix
        /\ j \in DOMAIN parsedExplanations.matrix[i]
    THEN parsedExplanations.matrix[i][j] ELSE <<>>

\* C14: cell (r, c) of an aligned matrix is missing (NaN, '') when target
\* label r or target label c has no trimmed-equal source label, and is the
\* source cell (idx(r), idx(c)) otherwise, idx being the position the source
\* holds the label at; so a target label the source lacks gives a missing
\* row and column, and a source label the target lacks gives nothing.
C14_CellByLabel ==
    Aligned =>
        \A r, c \in DOMAIN canonicalLabels :
            LET lr == canonicalLabels[r]
                lc == canonicalLabels[c]
            IN  IF Matches(lr) = {} \/ Matches(lc) = {}
                THEN /\ alignedScores[r][c] = NaN
                     /\ alignedExplanations[r][c] = <<>>
                ELSE /\ alignedScores[r][c] = SourceScore(idx(lr), idx(lc))
                     /\ alignedExplanations[r][c] =
                            SourceText(idx(lr), idx(lc))

\* The target's first label is held twice by the source, its second by no
\* source label: one cell is found, the second row and column are missing.
C14_Witness ==
    /\ Aligned
    /\ SourceLabels = << <<"A">>, <<" ", "A">> >>
    /\ canonicalLabels = << <<"A">>, <<"B", " ">> >>
    /\ alignedScores[1][1] = Whole(22)
    /\ alignedExplanations[1][1] = <<"2", "2">>
    /\ alignedScores[2] = <<NaN, NaN>>
    /\ alignedScores[1][2] = NaN
    /\ alignedExplanations[2] = << <<>>, <<>> >>

(***************************************************************************)
(* Number(text) for the texts of this module: blanks, digits, '.', ',' and *)
(* letters that are no part of a numeric literal.  Surrounding white space *)
(* is dropped, the empty text is 0, digits with at most one '.' and at     *)
(* least one digit are that decimal number, anything else is NaN.          *)
(***************************************************************************)
IsDigit(ch) == \E d \in DOMAIN Digits : Digits[d] = ch

digitValue(ch) == (CHOOSE d \in DOMAIN Digits : Digits[d] = ch) - 1

RECURSIVE wholeValue(_)
wholeValue(s) ==
    IF s = <<>> THEN 0
    ELSE 10 * wholeValue(SubSeq(s, 1, Len(s) - 1)) + digitValue(s[Len(s)])

RECURSIVE dropTrailingZeros(_)
dropTrailingZeros(s) ==
    IF s # <<>> /\ s[Len(s)] = "0"
    THEN dropTrailingZeros(SubSeq(s, 1, Len(s) - 1))
    ELSE s

\* The position of the first ch in s, 0 when there is none.
indexOfChar(s, ch) ==
    IF \E i \in DOMAIN s : s[i] = ch
    THEN CHOOSE i \in DOMAIN s : s[i] = ch /\ \A j \in 1..(i - 1) : s[j] # ch
    ELSE 0

Number(text) ==
    LET t     == trim(text)
        dot   == indexOfChar(t, ".")
        whole == IF dot = 0 THEN t ELSE SubSeq(t, 1, dot - 1)
        frac  == IF dot = 0 THEN <<>> ELSE SubSeq(t, dot + 1, Len(t))
    IN  IF t = <<>> THEN Whole(0)
        ELSE IF /\ \A i \in DOMAIN whole : IsDigit(whole[i])
                /\ \A i \in DOMAIN frac : IsDigit(frac[i])
                /\ Len(whole) + Len(frac) > 0
             THEN Num(<<wholeValue(whole), dropTrailingZeros(frac)>>)
             ELSE NaN

\* raw.replace(',', '.'): the first comma only.
replaceFirstComma(raw) ==
    LET at == indexOfChar(raw, ",")
    IN  IF at = 0 THEN raw ELSE [raw EXCEPT ![at] = "."]

parseScoreValue(rawValue) ==
    LET raw == normalizeLabel(rawValue)
        num == Number(IF "," \in Range(raw) THEN replaceFirstComma(raw)
                      ELSE raw)
    IN  IF raw = <<>> THEN NaN
        ELSE IF NumberIsFinite(num) THEN num ELSE NaN

(***************************************************************************)
(* detectMatrixLayout.  Columns are counted from 0 as in the source; the   *)
(* sequences of this module are read at column + 1.                        *)
(***************************************************************************)
\* rows.slice(1)
slice1(rows) == IF rows = <<>> THEN <<>> ELSE Tail(rows)

\* A mutant of findIndex: the header cell is compared as it is written.
RECURSIVE findIndexUntrimmed(_, _, _)
findIndexUntrimmed(header, candidate, from) ==
    IF from >= Len(header) THEN -1
    ELSE IF header[from + 1] = candidate THEN from
    ELSE findIndexUntrimmed(header, candidate, from + 1)

\* header.findIndex((value) => normalizeLabel(value) === candidate), from 0;
\* -1 when no cell matches.
RECURSIVE findIndex(_, _, _)
findIndex(header, candidate, from) ==
    IF from >= Len(header) THEN -1
    ELSE IF normalizeLabel(header[from + 1]) = candidate THEN from
    ELSE findIndex(header, candidate, from + 1)

\* The for loop over the first data row, from column colIdx on.
RECURSIVE scanFirstDataRow(_, _, _, _)
scanFirstDataRow(header, firstDataRow, colIdx, fallback) ==
    IF colIdx >= Len(firstDataRow) THEN fallback
    ELSE LET candidate == normalizeLabel(firstDataRow[colIdx + 1])
             headerIdx == findIndex(header, candidate, 0)
         IN  IF candidate = <<>>
             THEN scanFirstDataRow(header, firstDataRow, colIdx + 1, fallback)
             ELSE IF headerIdx >= 0
             THEN [rowLabelColumn |-> colIdx, firstDataColumn |-> headerIdx]
             ELSE scanFirstDataRow(header, firstDataRow, colIdx + 1, fallback)

detectMatrixLayout(rows) ==
    LET header   == IF rows = <<>> THEN <<>> ELSE rows[1]
        dataRows == SelectSeq(slice1(rows), LAMBDA row : Len(row) > 0)
        fallback == [rowLabelColumn |-> 0,
                     firstDataColumn |->
                        IF header # <<>> /\ trim(header[1]) = <<>>
                        THEN 1 ELSE 0]
        found    == IF dataRows = <<>> THEN fallback
                    ELSE scanFirstDataRow(header, dataRows[1], 0, fallback)
        first    == found.firstDataColumn
    IN  [labels |-> [k \in 1..(Len(header) - first) |->
                        normalizeLabel(header[first + k])],
         dataRows |-> dataRows,
         rowLabelColumn |-> found.rowLabelColumn,
         firstDataColumn |-> first]

(***************************************************************************)
(* parseScoreMatrix and parseExplanationMatrix, after csvParseRows.        *)
(***************************************************************************)
\* dataRows.length >= labels.length && labels.every((label, rowIdx) =>
\*     normalizeLabel(dataRows[rowIdx]?.[rowLabelColumn]) === label)
isAlignedByOrder(lay) ==
    /\ Len(lay.dataRows) >= Len(lay.labels)
    /\ \A rowIdx \in DOMAIN lay.labels :
          normalizeLabel(arrayGet(lay.dataRows[rowIdx],
                                  lay.rowLabelColumn + 1))
              = lay.labels[rowIdx]

\* new Map(dataRows.map((row) => [normalizeLabel(row[rowLabelColumn]), row]))
rowByLabel(lay) ==
    newMap([i \in DOMAIN lay.dataRows |->
               <<normalizeLabel(arrayGet(lay.dataRows[i],
                                         lay.rowLabelColumn + 1)),
                 lay.dataRows[i]>>])

\* The raw cell under column label c (from 1) of the row of label r: by
\* position when the rows follow the labels, through rowByLabel otherwise;
\* undefined when the row or the cell is absent.
rawCell(lay, r, c) ==
    IF isAlignedByOrder(lay)
    THEN arrayGet(lay.dataRows[r], lay.firstDataColumn + c)
    ELSE LET byLabel == rowByLabel(lay)
         IN  IF lay.labels[r] \in DOMAIN byLabel
             THEN arrayGet(byLabel[lay.labels[r]], lay.firstDataColumn + c)
             ELSE UndefinedCell

parseScoreMatrix(rows) ==
    LET lay == detectMatrixLayout(rows)
    IN  [labels |-> lay.labels,
         matrix |-> [r \in DOMAIN lay.labels |->
                        [c \in DOMAIN lay.labels |->
                            parseScoreValue(rawCell(lay, r, c))]]]

\* row[firstDataColumn + colIdx] ?? ''
parseExplanationMatrix(rows) ==
    LET lay == detectMatrixLayout(rows)
    IN  [labels |-> lay.labels,
         matrix |-> [r \in DOMAIN lay.labels |->
                        [c \in DOMAIN lay.labels |->
                            LET value == rawCell(lay, r, c)
                            IN  IF value = UndefinedCell THEN <<>>
                                ELSE value]]]

(***************************************************************************)
(* The parsers of app/src/App.tsx: the first row without its first cell is *)
(* the labels, every other row without its first cell is a matrix row.     *)
(***************************************************************************)
appLabels(rows) ==
    LET header == IF rows = <<>> THEN <<>> ELSE rows[1]
        rest   == slice1(header)
    IN  [k \in DOMAIN rest |-> trim(rest[k])]

appParseScoreMatrix(rows) ==
    [labels |-> appLabels(rows),
     matrix |-> [r \in DOMAIN slice1(rows) |->
                    LET cells == slice1(slice1(rows)[r])
                    IN  [c \in DOMAIN cells |->
                            LET num == Number(trim(cells[c]))
                            IN  IF NumberIsFinite(num) THEN num ELSE NaN]]]

appParseExplanationMatrix(rows) ==
    [labels |-> appLabels(rows),
     matrix |-> [r \in DOMAIN slice1(rows) |->
                    LET cells == slice1(slice1(rows)[r])
                    IN  [c \in DOMAIN cells |-> trim(cells[c])]]]

(***************************************************************************)
(* The parsing specification: a grid of raw cells, as csvParseRows gives    *)
(* it, is parsed by the four parsers.  The grids are of two families: any   *)
(* header over at most one data row (for the layout), and a header of a     *)
(* blank cell and unique labels over labelled rows in any order.            *)
(***************************************************************************)
MaxCols == 3
MaxRows == 2

HeaderCells == {<<>>, <<"A">>, <<" ", "B">>}
LayoutCells == {<<" ">>, <<"A", " ">>, <<"B">>, <<"1">>}

LayoutGrids ==
    {<<>>} \cup
    {<<header>> \o rest :
        header \in SeqsUpTo(HeaderCells, MaxCols),
        rest \in {<<>>} \cup
                 UNION {{<<row>>, << <<>>, row >>} :
                            row \in SeqsUpTo(LayoutCells, MaxCols)}}

LabelledHeaders ==
    {<< <<>>, <<"A">> >>,
     << <<>>, <<"A">>, <<"B", " ">> >>,
     << <<" ">>, <<"B">>, <<"A">> >>}

RowLabels == {<<"A">>, <<" ", "B">>}

\* What follows the label in a row: whole numbers with blanks, a decimal
\* comma, an empty cell, text, a blank cell, a decimal point, two commas,
\* rows that lack cells.
RowTails ==
    {<< <<"1">>, <<" ", "2", " ">> >>,
     << <<"0", ",", "5">>, <<>> >>,
     << <<" ", "x">> >>,
     << <<" ">>, <<"1", ".", "5", "0">> >>,
     << <<"1", ",", "2", ",", "3">>, <<"7">> >>,
     <<>>}

LabelledRows == {<<l>> \o tail : l \in RowLabels, tail \in RowTails}

LabelledGrids ==
    {<<header>> \o rows :
        header \in LabelledHeaders, rows \in SeqsUpTo(LabelledRows, MaxRows)}

InitParse ==
    /\ pc = "loaded"
    /\ TreeIdle
    /\ ExplanationIdle
    /\ ViewIdle
    /\ csvRows \in LayoutGrids \cup LabelledGrids
    /\ layout = NoLayout
    /\ parsedScores = NoMatrix
    /\ parsedExplanations = NoMatrix
    /\ appParsedScores = NoMatrix
    /\ appParsedExplanations = NoMatrix
    /\ canonicalLabels = <<>>
    /\ alignedScores = <<>>
    /\ alignedExplanations = <<>>

ParseMatrices ==
    /\ pc = "loaded"
    /\ pc' = "parsed"
    /\ layout' = detectMatrixLayout(csvRows)
    /\ parsedScores' = parseScoreMatrix(csvRows)
    /\ parsedExplanations' = parseExplanationMatrix(csvRows)
    /\ appParsedScores' = appParseScoreMatrix(csvRows)
    /\ appParsedExplanations' = appParseExplanationMatrix(csvRows)
    /\ UNCHANGED <<csvRows, canonicalLabels, alignedScores,
                   alignedExplanations>>
    /\ UNCHANGED <<treeVars, explanationVars, viewVars>>

NextParse == ParseMatrices

SpecParse == InitParse /\ [][NextParse]_vars

(***************************************************************************)
(* C15 *)
(***************************************************************************)
Parsed == pc = "parsed"

Header == IF csvRows = <<>> THEN <<>> ELSE csvRows[1]
DataRows == slice1(csvRows)

\* The header is a blank cell followed by labels that differ after trimming,
\* and every data row starts with one of those labels.
IsLabelledGrid ==
    /\ Len(Header) >= 2
    /\ trim(Header[1]) = <<>>
    /\ \A i, j \in 2..Len(Header) :
          /\ trim(Header[i]) # <<>>
          /\ trim(Header[i]) = trim(Header[j]) => i = j
    /\ \A k \in DOMAIN DataRows :
          /\ DataRows[k] # <<>>
          /\ \E i \in 2..Len(Header) : trim(DataRows[k][1]) = trim(Header[i])

HeaderLabels == [k \in 1..(Len(Header) - 1) |-> trim(Header[k + 1])]

permuted(p) == <<Header>> \o [k \in DOMAIN DataRows |-> DataRows[p[k]]]

\* C15 as stated: for a header of a blank cell and unique labels over data
\* rows that each start with one of the labels, both parsers return all the
\* header labels, and the same labels and matrix for every order of the
\* data rows.
C15_AsStated ==
    (Parsed /\ IsLabelledGrid) =>
        /\ parsedScores.labels = HeaderLabels
        /\ parsedExplanations.labels = HeaderLabels
        /\ \A p \in Permutations(DOMAIN DataRows) :
              /\ parseScoreMatrix(permuted(p)) = parsedScores
              /\ parseExplanationMatrix(permuted(p)) = parsedExplanations

(***************************************************************************)
(* C16 *)
(***************************************************************************)
\* The data rows detectLayout looks at: the rows after the header that have
\* at least one cell.
NonEmptyDataRows == SelectSeq(DataRows, LAMBDA row : Len(row) > 0)

\* The header columns (from 0) whose trimmed cell is the trimmed text.
HeaderColumnsOf(text) ==
    {h \in 0..(Len(Header) - 1) : trim(Header[h + 1]) = trim(text)}

\* The columns (from 0) of the first data row whose cell is not blank and
\* equals some header cell after trimming.
MatchingColumns ==
    IF NonEmptyDataRows = <<>> THEN {}
    ELSE {c \in 0..(Len(NonEmptyDataRows[1]) - 1) :
            /\ trim(NonEmptyDataRows[1][c + 1]) # <<>>
            /\ HeaderColumnsOf(NonEmptyDataRows[1][c + 1]) # {}}

Least(S) == CHOOSE x \in S : \A y \in S : x <= y

Min(a, b) == IF a <= b THEN a ELSE b

\* C16: detectLayout returns rowLabelColumn c and firstDataColumn h, where c
\* is the column of the first non-blank cell of the first data row whose
\* trimmed value equals some trimmed header cell and h is the index of the
\* first such header cell; when there is none, rowLabelColumn is 0 and
\* firstDataColumn is 1 if the header's first cell is blank, else 0.  The
\* labels are the trimmed header cells from firstDataColumn on.
C16_Layout ==
    Parsed =>
        /\ IF MatchingColumns # {}
           THEN LET c == Least(MatchingColumns)
                IN  /\ layout.rowLabelColumn = c
                    /\ layout.firstDataColumn =
                          Least(HeaderColumnsOf(NonEmptyDataRows[1][c + 1]))
           ELSE /\ layout.rowLabelColumn = 0
                /\ layout.firstDataColumn =
                      IF Header # <<>> /\ trim(Header[1]) = <<>> THEN 1 ELSE 0
        /\ Len(layout.labels) = Len(Header) - layout.firstDataColumn
        /\ \A k \in DOMAIN layout.labels :
              layout.labels[k] = trim(Header[layout.firstDataColumn + k])
        /\ parsedScores.labels = layout.labels
        /\ parsedExplanations.labels = layout.labels

\* The row label is found in the second column of the first data row, after
\* a cell that matches no header cell, and names the header's second column,
\* where a blank precedes it.
C16_Witness ==
    /\ Parsed
    /\ Header = << <<>>, <<" ", "B">>, <<"A">> >>
    /\ NonEmptyDataRows = << << <<"1">>, <<"B">>, <<"A", " ">> >> >>
    /\ layout.rowLabelColumn = 1
    /\ layout.firstDataColumn = 1
    /\ layout.labels = << <<"B">>, <<"A">> >>

(***************************************************************************)
(* C17 *)
(***************************************************************************)
\* The positions of a decimal separator ('.' or ',') in a text.
Separators(t) == {i \in DOMAIN t : t[i] \in {".", ","}}

\* Digits around at most one decimal separator, with at least one digit.
IsDecimal(t) ==
    /\ \A i \in DOMAIN t \ Separators(t) : IsDigit(t[i])
    /\ Cardinality(Separators(t)) <= 1
    /\ Cardinality(DOMAIN t \ Separators(t)) >= 1

decimalOf(t) ==
    LET at == IF Separators(t) = {} THEN Len(t) + 1
              ELSE CHOOSE i \in Separators(t) : TRUE
    IN  Num(<<wholeValue(SubSeq(t, 1, at - 1)),
              dropTrailingZeros(SubSeq(t, at + 1, Len(t)))>>)

\* The score the claim gives a raw cell: NaN when the cell is absent, empty
\* after trimming or no number; the number when it is one, written with a
\* decimal point or a decimal comma.
claimedScore(raw) ==
    IF raw = UndefinedCell \/ trim(raw) = <<>> THEN NaN
    ELSE IF IsDecimal(trim(raw)) THEN decimalOf(trim(raw))
    ELSE NaN

\* The part of C17 that is about parseScoreMatrix of the newer App.
ScoresAsClaimed ==
    \A r, c \in DOMAIN parsedScores.labels :
        parsedScores.matrix[r][c] = claimedScore(rawCell(layout, r, c))

\* The part of C17 that is about parseScoreMatrix of app/src/App.tsx, whose
\* cell (r, c) is read from row r + 1, column c + 1 of the grid.
AppScoresAsClaimed ==
    \A r \in DOMAIN appParsedScores.matrix :
        \A c \in DOMAIN appParsedScores.matrix[r] :
            appParsedScores.matrix[r][c] =
                claimedScore(csvRows[r + 1][c + 1])

\* C17 as stated: in parseScoreMatrix a cell that is empty after trimming,
\* absent from its row or not parseable as a finite number becomes NaN and
\* never 0, and a comma decimal parses as a number.
C17_AsStated == Parsed => (ScoresAsClaimed /\ AppScoresAsClaimed)

(***************************************************************************)
(* C18 *)
(***************************************************************************)
claimedText(raw) == IF raw = UndefinedCell THEN <<>> ELSE trim(raw)

\* The part of C18 that is about parseExplanationMatrix of the newer App.
TextsAsClaimed ==
    \A r, c \in DOMAIN parsedExplanations.labels :
        parsedExplanations.matrix[r][c] = claimedText(rawCell(layout, r, c))

\* The part of C18 that is about parseExplanationMatrix of app/src/App.tsx:
\* a row has a cell, trimmed, for every label.
AppTextsAsClaimed ==
    \A r \in DOMAIN appParsedExplanations.matrix :
        /\ Len(appParsedExplanations.matrix[r])
              = Len(appParsedExplanations.labels)
        /\ \A c \in DOMAIN appParsedExplanations.matrix[r] :
              appParsedExplanations.matrix[r][c] =
                  claimedText(arrayGet(csvRows[r + 1], c + 1))

\* C18 as stated: in parseExplanationMatrix every matrix cell is the trimmed
\* text of the raw cell, and a cell absent from its row becomes ''.
C18_AsStated == Parsed => (TextsAsClaimed /\ AppTextsAsClaimed)

(***************************************************************************)
(* lib/explanation.ts: extractUnitsFromExplanation.                        *)
(***************************************************************************)
UpperCase == <<"A", "B", "C", "D", "E", "F", "G", "H", "I", "J", "K", "L",
               "M", "N", "O", "P", "Q", "R", "S", "T", "U", "V", "W", "X",
               "Y", "Z">>
LowerCase == <<"a", "b", "c", "d", "e", "f", "g", "h", "i", "j", "k", "l",
               "m", "n", "o", "p", "q", "r", "s", "t", "u", "v", "w", "x",
               "y", "z">>

lower(ch) ==
    IF \E i \in DOMAIN UpperCase : UpperCase[i] = ch
    THEN LowerCase[CHOOSE i \in DOMAIN UpperCase : UpperCase[i] = ch]
    ELSE ch

toLowerCase(s) == [i \in DOMAIN s |-> lower(s[i])]

\* [^\n|.;] is any character but these.
Terminators == {"\n", "|", ".", ";"}

\* The quote characters of cleanUnitName's class; the backquote, its third,
\* is no character of the texts here.
QuoteChars == {"\"", "'"}

\* text.replace(/\r/g, ' ')
replaceCR(text) == [i \in DOMAIN text |-> IF text[i] = "\r" THEN " " ELSE text[i]]

\* \s* from position i: the position after the white space.
RECURSIVE skipSpace(_, _)
skipSpace(text, i) ==
    IF i <= Len(text) /\ text[i] \in Whitespace THEN skipSpace(text, i + 1)
    ELSE i

\* /UNIDAD\s*<digit>\s*:/i at position i: the position after the colon, 0
\* when the text does not match there.
matchMarker(text, i, digit) ==
    LET word  == <<"u", "n", "i", "d", "a", "d">>
        j     == skipSpace(text, i + Len(word))
        k     == skipSpace(text, j + 1)
    IN  IF /\ i + Len(word) - 1 <= Len(text)
           /\ toLowerCase(SubSeq(text, i, i + Len(word) - 1)) = word
           /\ j <= Len(text) /\ text[j] = digit
           /\ k <= Len(text) /\ text[k] = ":"
        THEN k + 1
        ELSE 0

\* \s*([^\n|.;]+) from position q: the greedy \s* gives white space back, one
\* character at a time down to q, until the group can start; 0 when it cannot
\* start anywhere.
RECURSIVE groupStart(_, _, _)
groupStart(text, q, at) ==
    IF at < q THEN 0
    ELSE IF at <= Len(text) /\ text[at] \notin Terminators THEN at
    ELSE groupStart(text, q, at - 1)

\* A mutant of groupEnd: the group does not end at a pipe.
RECURSIVE groupEndPastPipe(_, _)
groupEndPastPipe(text, at) ==
    IF at + 1 <= Len(text) /\ text[at + 1] \notin (Terminators \ {"|"})
    THEN groupEndPastPipe(text, at + 1)
    ELSE at

\* The last position of the group that starts at position at.
RECURSIVE groupEnd(_, _)
groupEnd(text, at) ==
    IF at + 1 <= Len(text) /\ text[at + 1] \notin Terminators
    THEN groupEnd(text, at + 1)
    ELSE at

NoMatch == [found |-> FALSE, group |-> <<>>]

\* normalized.match(/UNIDAD\s*<digit>\s*:\s*([^\n|.;]+)/i), tried from
\* position i on: the leftmost match and its group.
RECURSIVE unitMatch(_, _, _)
unitMatch(text, digit, i) ==
    IF i > Len(text) THEN NoMatch
    ELSE LET q     == matchMarker(text, i, digit)
             start == IF q = 0 THEN 0
                      ELSE groupStart(text, q, skipSpace(text, q))
         IN  IF start = 0 THEN unitMatch(text, digit, i + 1)
             ELSE [found |-> TRUE,
                   group |-> SubSeq(text, start, groupEnd(text, start))]

RECURSIVE stripLeadingQuotes(_)
stripLeadingQuotes(s) ==
    IF s # <<>> /\ Head(s) \in QuoteChars THEN stripLeadingQuotes(Tail(s))
    ELSE s

RECURSIVE stripTrailingQuotes(_)
stripTrailingQuotes(s) ==
    IF s # <<>> /\ s[Len(s)] \in QuoteChars
    THEN stripTrailingQuotes(SubSeq(s, 1, Len(s) - 1))
    ELSE s

\* value.replace(/\s+/g, ' ')
RECURSIVE collapseSpace(_)
collapseSpace(s) ==
    IF s = <<>> THEN <<>>
    ELSE IF Head(s) \in Whitespace
    THEN <<" ">> \o collapseSpace(trimStart(s))
    ELSE <<Head(s)>> \o collapseSpace(Tail(s))

cleanUnitName(value) ==
    collapseSpace(stripTrailingQuotes(stripLeadingQuotes(trim(value))))

NoUnits == [found |-> FALSE, unit1 |-> <<>>, unit2 |-> <<>>]

extractUnitsFromExplanation(text) ==
    LET normalized == replaceCR(text)
        unit1Match == unitMatch(normalized, "1", 1)
        unit2Match == unitMatch(normalized, "2", 1)
        unit1      == cleanUnitName(unit1Match.group)
        unit2      == cleanUnitName(unit2Match.group)
    IN  IF text = <<>> THEN NoUnits
        ELSE IF ~unit1Match.found \/ ~unit2Match.found THEN NoUnits
        ELSE IF unit1 = <<>> \/ unit2 = <<>> THEN NoUnits
        ELSE [found |-> TRUE, unit1 |-> unit1, unit2 |-> unit2]

(***************************************************************************)
(* lib/explanation.ts: inferUnitsFromCatalog, getPairLabelsFromExplanation *)
(***************************************************************************)
\* normalize('NFD').replace(/\p{Diacritic}/gu, ''), for the accented letters
\* of the texts here.
Accented == <<"á", "é", "í", "ó", "ú">>
Unaccented == <<"a", "e", "i", "o", "u">>

stripDiacritic(ch) ==
    IF \E i \in DOMAIN Accented : Accented[i] = ch
    THEN Unaccented[CHOOSE i \in DOMAIN Accented : Accented[i] = ch]
    ELSE ch

\* [a-z0-9\s]
IsPlain(ch) ==
    \/ \E i \in DOMAIN LowerCase : LowerCase[i] = ch
    \/ IsDigit(ch)
    \/ ch \in Whitespace

normalizeText(value) ==
    LET lowered  == toLowerCase(value)
        stripped == [i \in DOMAIN lowered |-> stripDiacritic(lowered[i])]
        spaced   == [i \in DOMAIN stripped |->
                        IF IsPlain(stripped[i]) THEN stripped[i] ELSE " "]
    IN  trim(collapseSpace(spaced))

\* text.indexOf(part) searched from offset from on (offsets from 0); -1 when
\* the part does not occur.
RECURSIVE indexOf(_, _, _)
indexOf(text, part, from) ==
    IF from + Len(part) > Len(text) THEN -1
    ELSE IF SubSeq(text, from + 1, from + Len(part)) = part THEN from
    ELSE indexOf(text, part, from + 1)

\* A mutant of mentionBefore: at the same offset the shorter label is first.
mentionBeforeShorter(a, b) ==
    a.idx < b.idx \/ (a.idx = b.idx /\ a.length < b.length)

\* The comparator a.idx - b.idx || b.length - a.length is negative.
mentionBefore(a, b) ==
    a.idx < b.idx \/ (a.idx = b.idx /\ a.length > b.length)

\* Array.prototype.sort is stable: m goes after the last element that is
\* not after it.
RECURSIVE insertMention(_, _)
insertMention(sorted, m) ==
    IF sorted = <<>> THEN <<m>>
    ELSE IF mentionBefore(m, sorted[Len(sorted)])
    THEN Append(insertMention(SubSeq(sorted, 1, Len(sorted) - 1), m),
                sorted[Len(sorted)])
    ELSE Append(sorted, m)

RECURSIVE sortMentions(_)
sortMentions(ms) ==
    IF ms = <<>> THEN <<>>
    ELSE insertMention(sortMentions(SubSeq(ms, 1, Len(ms) - 1)), ms[Len(ms)])

\* A mutant of mentionsOf: a label shorter than 4 is a mention too.
RECURSIVE mentionsOfAnyLength(_, _)
mentionsOfAnyLength(normalizedText, labelList) ==
    IF labelList = <<>> THEN <<>>
    ELSE LET label           == Head(labelList)
             normalizedLabel == normalizeText(label)
             at              == indexOf(normalizedText, normalizedLabel, 0)
             rest            == mentionsOfAnyLength(normalizedText,
                                                    Tail(labelList))
         IN  IF normalizedLabel = <<>> \/ at < 0
             THEN rest
             ELSE <<[label |-> label, idx |-> at,
                     length |-> Len(normalizedLabel)]>> \o rest

\* The map and filter of inferUnitsFromCatalog: the catalog labels that are
\* mentioned, in catalog order.
RECURSIVE mentionsOf(_, _)
mentionsOf(normalizedText, labelList) ==
    IF labelList = <<>> THEN <<>>
    ELSE LET label           == Head(labelList)
             normalizedLabel == normalizeText(label)
             at              == indexOf(normalizedText, normalizedLabel, 0)
             rest            == mentionsOf(normalizedText, Tail(labelList))
         IN  IF normalizedLabel = <<>> \/ Len(normalizedLabel) < 4 \/ at < 0
             THEN rest
             ELSE <<[label |-> label, idx |-> at,
                     length |-> Len(normalizedLabel)]>> \o rest

\* The loop that collects the first two different labels.
RECURSIVE uniqueLabels(_, _)
uniqueLabels(mentions, unique) ==
    IF mentions = <<>> \/ Len(unique) >= 2 THEN unique
    ELSE uniqueLabels(Tail(mentions),
                      IF Head(mentions).label \in Range(unique) THEN unique
                      ELSE Append(unique, Head(mentions).label))

inferUnitsFromCatalog(text, labelList) ==
    LET normalizedText == normalizeText(text)
        mentions       == sortMentions(mentionsOf(normalizedText, labelList))
        unique         == uniqueLabels(mentions, <<>>)
    IN  IF normalizedText = <<>> THEN NoUnits
        ELSE IF Len(mentions) < 2 THEN NoUnits
        ELSE IF Len(unique) < 2 THEN NoUnits
        ELSE [found |-> TRUE, unit1 |-> unique[1], unit2 |-> unique[2]]

getPairLabelsFromExplanation(defaultRowLabel, defaultColLabel, text, cat) ==
    LET parsed   == extractUnitsFromExplanation(text)
        inferred == IF parsed.found THEN parsed
                    ELSE IF cat.given
                    THEN inferUnitsFromCatalog(text, cat.labels)
                    ELSE NoUnits
    IN  IF ~inferred.found THEN <<defaultRowLabel, defaultColLabel>>
        ELSE <<inferred.unit1, inferred.unit2>>

(***************************************************************************)
(* The explanation specification: getPairLabelsFromExplanation is called   *)
(* on a text.  The texts are of two families: marker phrases in a row with *)
(* no catalog or a catalog of two labels, and texts that mention labels    *)
(* with any catalog of a few labels.                                       *)
(***************************************************************************)
MaxPhrases == 2
MaxCatalog == 3

\* The phrases a text with markers is made of:
\*   UNIDAD 1: Foo | UNIDAD 2: Bar
\*   UNIDAD 1: Foo | 
\*   unidad1:\n'Ab  cd' ;
\*   UNIDAD 1: |
\*   Unidad 1 :"".
\*   UNIDAD 1:\n|
\*   UNIDAD 2: Bar
\*   UNIDAD 2 : efgh.abcd;
\*   Unidad 2:\r\n ;
\*   abcd y Efgh 
MarkerPhrases ==
    {<<"U", "N", "I", "D", "A", "D", " ", "1", ":", " ", "F", "o", "o",
      " ", "|", " ", "U", "N", "I", "D", "A", "D", " ", "2", ":", " ",
      "B", "a", "r">>,
     <<"U", "N", "I", "D", "A", "D", " ", "1", ":", " ", "F", "o", "o",
      " ", "|", " ">>,
     <<"u", "n", "i", "d", "a", "d", "1", ":", "\n", "'", "A", "b", " ",
      " ", "c", "d", "'", " ", ";">>,
     <<"U", "N", "I", "D", "A", "D", " ", "1", ":", " ", "|">>,
     <<"U", "n", "i", "d", "a", "d", " ", "1", " ", ":", "\"", "\"",
      ".">>,
     <<"U", "N", "I", "D", "A", "D", " ", "1", ":", "\n", "|">>,
     <<"U", "N", "I", "D", "A", "D", " ", "2", ":", " ", "B", "a",
      "r">>,
     <<"U", "N", "I", "D", "A", "D", " ", "2", " ", ":", " ", "e", "f",
      "g", "h", ".", "a", "b", "c", "d", ";">>,
     <<"U", "n", "i", "d", "a", "d", " ", "2", ":", "\r", "\n", " ",
      ";">>,
     <<"a", "b", "c", "d", " ", "y", " ", "E", "f", "g", "h", " ">>}

\* The texts without markers, which mention catalog labels:
\*   (the empty text)
\*   efgó.ABCD-E 
\*   ABCD-E efgó.
\*   xyz Abcd;
\*   Abcd;efgó.xyz 
\*   ABCD-E 
\*   x Abcd; abcd
MentionTexts ==
    {<<>>,
     <<"e", "f", "g", "ó", ".", "A", "B", "C", "D", "-", "E", " ">>,
     <<"A", "B", "C", "D", "-", "E", " ", "e", "f", "g", "ó", ".">>,
     <<"x", "y", "z", " ", "A", "b", "c", "d", ";">>,
     <<"A", "b", "c", "d", ";", "e", "f", "g", "ó", ".", "x", "y", "z",
      " ">>,
     <<"A", "B", "C", "D", "-", "E", " ">>,
     <<"x", " ", "A", "b", "c", "d", ";", " ", "a", "b", "c", "d">>}

\* Abcd, abcd, Abcd-E, Efgó, Xyz: the first two are one label after
\* normalizing, the last is shorter than 4.
CatalogLabels ==
    {<<"A", "b", "c", "d">>,
     <<"a", "b", "c", "d">>,
     <<"A", "b", "c", "d", "-", "E">>,
     <<"E", "f", "g", "ó">>,
     <<"X", "y", "z">>}

RECURSIVE concat(_)
concat(parts) == IF parts = <<>> THEN <<>> ELSE Head(parts) \o concat(Tail(parts))

MarkerCatalogs == {NoCatalog, Catalog(<<<<"A", "b", "c", "d">>, <<"E", "f", "g", "h">>>>)}

\* The defaults: two labels that are in no catalog, or the two labels of the
\* marker catalog in the order the texts do not mention them in.
RowColDefaults == <<<<"R">>, <<"C">>>>
DefaultPairs ==
    {RowColDefaults, <<<<"E", "f", "g", "h">>, <<"A", "b", "c", "d">>>>}

InitExplain ==
    /\ pc = "asked"
    /\ TreeIdle
    /\ MatrixIdle
    /\ ViewIdle
    /\ \/ /\ explanation \in {concat(ps) : ps \in SeqsUpTo(MarkerPhrases, MaxPhrases)}
          /\ catalog \in MarkerCatalogs
          /\ defaultLabels \in DefaultPairs
       \/ /\ explanation \in MentionTexts
          /\ catalog \in {Catalog(ls) : ls \in SeqsUpTo(CatalogLabels, MaxCatalog)}
          /\ defaultLabels = RowColDefaults
    /\ pairLabels = <<>>

GetPairLabels ==
    /\ pc = "asked"
    /\ pc' = "answered"
    /\ pairLabels' = getPairLabelsFromExplanation(
           defaultLabels[1], defaultLabels[2], explanation, catalog)
    /\ UNCHANGED <<explanation, catalog, defaultLabels>>
    /\ UNCHANGED <<treeVars, matrixVars, viewVars>>

NextExplain == GetPairLabels

SpecExplain == InitExplain /\ [][NextExplain]_vars

(***************************************************************************)
(* C19 *)
(***************************************************************************)
Answered == pc = "answered"

Greatest(S) == CHOOSE x \in S : \A y \in S : y <= x

\* The first position from p on that holds no white space (one past the end
\* when there is none).
FirstNonSpace(p) ==
    LET S == {n \in p..Len(explanation) : explanation[n] \notin Whitespace}
    IN  IF S = {} THEN Len(explanation) + 1 ELSE Least(S)

\* The positions a marker 'UNIDAD <digit>:' starts at, in any letter case
\* and with any white space before the digit and before the colon.
MarkerStarts(digit) ==
    {i \in 1..(Len(explanation) - 5) :
        /\ toLowerCase(SubSeq(explanation, i, i + 5))
              = <<"u", "n", "i", "d", "a", "d">>
        /\ LET j == FirstNonSpace(i + 6)
           IN  /\ j <= Len(explanation) /\ explanation[j] = digit
               /\ LET k == FirstNonSpace(j + 1)
                  IN  k <= Len(explanation) /\ explanation[k] = ":"}

\* The position after the colon of the marker that starts at i.
AfterColon(i) == FirstNonSpace(FirstNonSpace(i + 6) + 1) + 1

\* The text from position n up to the next newline, pipe, period or
\* semicolon (or the end).
UpToTerminator(n) ==
    LET T == {m \in n..Len(explanation) : explanation[m] \in Terminators}
    IN  SubSeq(explanation, n,
               IF T = {} THEN Len(explanation) ELSE Least(T) - 1)

\* The cleaned names of the markers of a digit: a name starts at the first
\* character after the colon that is no white space and ends before the
\* next terminator.  Markers without such a name have none.
StatedNames(digit) ==
    {cleanUnitName(UpToTerminator(FirstNonSpace(AfterColon(i)))) :
        i \in {m \in MarkerStarts(digit) :
                 /\ FirstNonSpace(AfterColon(m)) <= Len(explanation)
                 /\ explanation[FirstNonSpace(AfterColon(m))]
                       \notin Terminators}}

\* C19 as stated: when the text has a 'UNIDAD 1: <name>' and a
\* 'UNIDAD 2: <name>' marker with non-empty cleaned names, the result is two
\* such names, whatever the catalog.
C19_AsStated ==
    (Answered /\ StatedNames("1") \ {<<>>} # {}
              /\ StatedNames("2") \ {<<>>} # {}) =>
        /\ pairLabels[1] \in StatedNames("1") \ {<<>>}
        /\ pairLabels[2] \in StatedNames("2") \ {<<>>}

\* The positions the name of the marker with the colon before q can start
\* at: only white space lies between the colon and the position, and the
\* character there is no terminator (it can be a blank).
NameStarts(q) ==
    {n \in q..Min(Len(explanation), FirstNonSpace(q)) :
        explanation[n] \notin Terminators}

\* The markers that are followed by a name, blank or not.
NamedMarkers(digit) ==
    {i \in MarkerStarts(digit) : NameStarts(AfterColon(i)) # {}}

\* The cleaned name of the first marker that is followed by a name: the name
\* starts as late as it can.
FirstName(digit) ==
    cleanUnitName(UpToTerminator(
        Greatest(NameStarts(AfterColon(Least(NamedMarkers(digit)))))))

\* C19 amended: when, for both digits, the first marker that is followed by
\* a name has a non-empty cleaned name, the result is these two names,
\* whatever the catalog.
C19_FirstMarkers ==
    (Answered /\ NamedMarkers("1") # {} /\ NamedMarkers("2") # {}
              /\ FirstName("1") # <<>> /\ FirstName("2") # <<>>) =>
        pairLabels = <<FirstName("1"), FirstName("2")>>

\* A quoted name after a newline, with a run of blanks inside, and a name
\* cut at a period; the catalog, whose two labels the text mentions, would
\* give another pair.
C19_Witness ==
    /\ Answered
    /\ catalog.given
    /\ inferUnitsFromCatalog(explanation, catalog.labels).found
    /\ NamedMarkers("1") # {} /\ NamedMarkers("2") # {}
    /\ FirstName("1") = <<"A", "b", " ", "c", "d">>
    /\ FirstName("2") = <<"e", "f", "g", "h">>
    /\ pairLabels = <<FirstName("1"), FirstName("2")>>
    /\ pairLabels[1] \notin Range(catalog.labels)

(***************************************************************************)
(* C20 *)
(***************************************************************************)
\* The text has no complete pair of markers.
NoMarkerPair ==
    ~ /\ NamedMarkers("1") # {} /\ NamedMarkers("2") # {}
      /\ FirstName("1") # <<>> /\ FirstName("2") # <<>>

\* The offsets (from 0) the normalized label occurs at in the normalized
\* text.
Offsets(label) ==
    LET t == normalizeText(explanation)
        l == normalizeText(label)
    IN  {o \in 0..(Len(t) - Len(l)) : SubSeq(t, o + 1, o + Len(l)) = l}

\* The catalog labels of normalized length >= 4 that the text contains.
Mentioned ==
    {l \in Range(catalog.labels) :
        Len(normalizeText(l)) >= 4 /\ Offsets(l) # {}}

\* a comes before b in text order: at a smaller first offset or, at the
\* same one, with the longer normalized label.
InTextOrder(a, b) ==
    \/ Least(Offsets(a)) < Least(Offsets(b))
    \/ /\ Least(Offsets(a)) = Least(Offsets(b))
       /\ Len(normalizeText(a)) > Len(normalizeText(b))

\* C20: when the text has no marker pair, a catalog is supplied and the text
\* contains at least two different catalog labels of normalized length >= 4,
\* the result is two different such labels, the first one with no label
\* before it in text order (offset ascending, longer first at the same
\* offset) and the second one with none but the first before it.
C20_CatalogOrder ==
    (Answered /\ NoMarkerPair /\ catalog.given /\ Cardinality(Mentioned) >= 2)
        =>  /\ pairLabels[1] \in Mentioned
            /\ pairLabels[2] \in Mentioned \ {pairLabels[1]}
            /\ \A l \in Mentioned : ~InTextOrder(l, pairLabels[1])
            /\ \A l \in Mentioned \ {pairLabels[1]} :
                  ~InTextOrder(l, pairLabels[2])

\* Three labels are mentioned, the catalog's first two at the same offset
\* after its third: the result is the third and the longer of the two.
C20_Witness ==
    /\ Answered /\ NoMarkerPair
    /\ catalog = Catalog(<< <<"A", "b", "c", "d">>,
                            <<"A", "b", "c", "d", "-", "E">>,
                            <<"E", "f", "g", "ó">> >>)
    /\ Cardinality(Mentioned) = 3
    /\ Least(Offsets(catalog.labels[1])) = Least(Offsets(catalog.labels[2]))
    /\ Least(Offsets(catalog.labels[3])) = 0
    /\ pairLabels = <<catalog.labels[3], catalog.labels[2]>>

(***************************************************************************)
(* C21 *)
(***************************************************************************)
\* C21: getPairLabelsFromExplanation returns a pair for every default pair,
\* text (the empty one too) and catalog (none too); when the text has no
\* complete marker pair and mentions fewer than two different catalog
\* labels, the pair is the default pair.
C21_Defaults ==
    Answered =>
        /\ Len(pairLabels) = 2
        /\ (NoMarkerPair /\ Cardinality(Mentioned) < 2) =>
               pairLabels = defaultLabels

\* The text mentions two catalog labels, one of them shorter than 4, and has
\* no marker: the defaults come back.
C21_Witness ==
    /\ Answered /\ NoMarkerPair
    /\ catalog = Catalog(<< <<"X", "y", "z">>, <<"A", "b", "c", "d">> >>)
    /\ \A l \in Range(catalog.labels) : Offsets(l) # {}
    /\ Cardinality(Mentioned) = 1
    /\ pairLabels = defaultLabels

(***************************************************************************)
(* loadLocalData (unnamed/part_000 lines 190-273).  A run is cut at its    *)
(* awaits: fetch(dataUrl), response.json(), the two CSV fetches, the two   *)
(* text() calls; what runs between two awaits is one step, and the render  *)
(* that follows it (the treeData memo) belongs to the step.  The effect    *)
(* that starts a run has stable dependencies, so a mounted App starts one  *)
(* run; further runs are what a second effect invocation starts.           *)
(***************************************************************************)
MaxLoads == 2
Loads == 1..MaxLoads

\* useState<number>(0.5): distances and thresholds of this section count
\* quarters, so that maxDist * 0.5 is whole.
InitialCutThreshold == 2

\* data is null: the memo returns null.
NullTree == [status |-> "null", nodes |-> <<>>, root |-> Undefined]

\* const [left, right, distance, count] = linkage[i]
destructure(row) ==
    [k \in 1..4 |-> IF k \in DOMAIN row THEN row[k] ELSE Undefined]

\* Math.max(...newData.linkage.map(row => row[2]))
maxDist(lnk) ==
    CHOOSE d \in {destructure(lnk[i])[3] : i \in DOMAIN lnk} :
        \A i \in DOMAIN lnk : destructure(lnk[i])[3] <= d

\* loadData(newData) after its setData(newData): the threshold it leaves,
\* or the TypeError of newData.linkage.length on a missing linkage.
loadData(newData, threshold) ==
    IF newData.linkage.kind # "array"
    THEN [threw |-> TRUE, cutThreshold |-> threshold]
    ELSE IF Len(newData.linkage.items) > 0
    THEN [threw |-> FALSE,
          cutThreshold |-> maxDist(newData.linkage.items) \div 2]
    ELSE [threw |-> FALSE, cutThreshold |-> threshold]

\* The treeData memo: null without data; NoTree when the render throws (a
\* field that is no array, a row that names a missing node, or no root for
\* assignClusters to traverse); the labelled tree otherwise.
treeDataOf(d, threshold) ==
    IF ~d.given THEN NullTree
    ELSE IF d.linkage.kind # "array" \/ d.labels.kind # "array" THEN NoTree
    ELSE LET tree == buildTree([i \in DOMAIN d.linkage.items |->
                                    destructure(d.linkage.items[i])],
                               d.labels.items)
         IN  IF tree.status # "ok" \/ tree.root = Undefined THEN NoTree
             ELSE [tree EXCEPT
                      !.nodes = assignClusters(tree, threshold).nodes]

\* DataLoader.parseAndLoad's checks: linkage and labels are arrays and every
\* linkage row has 4 values.
parseAndLoadAccepts(p) ==
    /\ p.linkage.kind = "array"
    /\ p.labels.kind = "array"
    /\ \A i \in DOMAIN p.linkage.items : Len(p.linkage.items[i]) = 4

\* parsed.labels.map((label) => label.trim())
trimAll(labelList) == [i \in DOMAIN labelList |-> trim(labelList[i])]

(***************************************************************************)
(* What the three URLs may answer                                          *)
(***************************************************************************)
LabelA == <<"A">>
LabelB == <<"B", " ">>

TwoLeaves == Data(JArray(<< <<0, 1, 4, 2>> >>), JArray(<<LabelA, LabelB>>))
OneLeaf == Data(JArray(<<>>), JArray(<<LabelA>>))
NoLeaves == Data(JArray(<<>>), JArray(<<>>))
WithoutLinkage == Data(JMissing, JArray(<<LabelA, LabelB>>))
WithoutLabels == Data(JArray(<< <<0, 1, 4, 2>> >>), JMissing)
ShortRow == Data(JArray(<< <<0, 1, 4>> >>), JArray(<<LabelA, LabelB>>))

TreeArtifacts ==
    {TwoLeaves, OneLeaf, NoLeaves, WithoutLinkage, WithoutLabels, ShortRow}

\* The two CSV files as csvParseRows returns them: one pair over both
\* labels, one over the first label only.
MatrixFiles ==
    {[scores |-> << << <<>>, LabelA, LabelB >>,
                    << LabelA, <<"1">>, <<"2">> >>,
                    << LabelB, <<"3">>, <<"4">> >> >>,
      explanations |-> << << <<>>, LabelA, LabelB >>,
                          << LabelA, <<"a", "a">>, <<"a", "b">> >>,
                          << LabelB, <<"b", "a">>, <<"b", "b">> >> >>],
     [scores |-> << << <<>>, LabelA >>, << LabelA, <<"5">> >> >>,
      explanations |-> << << <<>>, LabelA >>, << LabelA, <<"x">> >> >>]}

\* fetch() resolves with response.ok, resolves with an HTTP error status, or
\* rejects.
FetchOutcomes == {"ok", "HTTP error", "Failed to fetch"}

(***************************************************************************)
(* The load specification                                                  *)
(***************************************************************************)
InitLoad ==
    /\ pc = "loading"
    /\ labels = <<>>
    /\ linkage = <<>>
    /\ treeData = NullTree
    /\ cutThreshold = InitialCutThreshold
    /\ clusterCount = 0
    /\ clusterRoots = <<>>
    /\ prevThreshold = Undefined
    /\ prevTreeData = NoTree
    /\ prevCount = 0
    /\ MatrixIdle
    /\ ExplanationIdle
    /\ loadPc = [l \in Loads |-> "idle"]
    /\ parsedTree = [l \in Loads |-> NoData]
    /\ overlap = FALSE
    /\ data = NoData
    /\ dataLoad = 0
    /\ hasData = FALSE
    /\ isLoading = FALSE
    /\ loadError = NullMessage
    /\ pairwiseError = NullMessage
    /\ scoreMatrix = NullMatrix
    /\ explanationMatrix = NullMatrix
    /\ pairwiseLabels = <<>>
    /\ matrixLoad = 0
    /\ selectedClusterId = NullId
    /\ selectedCell = NullCell

InFlight == {"fetch", "json", "fetchCsv", "text"}

\* A render that throws unmounts App: nothing is shown or stored after it.
Mounted == treeData.status # "error"

\* What a step of the loader never writes.
LoaderFrame ==
    /\ UNCHANGED <<labels, linkage, clusterCount, clusterRoots, prevThreshold,
                   prevTreeData, prevCount>>
    /\ UNCHANGED <<pc, matrixVars, explanationVars, heatmapVars>>

\* A mutant of outerCatch: the matrices of an earlier load are kept.
outerCatchKeepsMatrices(l, message) ==
    /\ loadPc' = [loadPc EXCEPT ![l] = "failed"]
    /\ loadError' = message
    /\ hasData' = FALSE
    /\ isLoading' = FALSE
    /\ UNCHANGED <<overlap, pairwiseError, scoreMatrix, explanationMatrix,
                   pairwiseLabels, matrixLoad>>

\* The outer catch and the finally block.
outerCatch(l, message) ==
    /\ loadPc' = [loadPc EXCEPT ![l] = "failed"]
    /\ loadError' = message
    /\ hasData' = FALSE
    /\ scoreMatrix' = NullMatrix
    /\ explanationMatrix' = NullMatrix
    /\ pairwiseLabels' = <<>>
    /\ matrixLoad' = l
    /\ isLoading' = FALSE
    /\ UNCHANGED <<overlap, pairwiseError>>

\* A mutant of innerCatch: a failed matrix load is a failed load.
innerCatchBlocks(l, message) ==
    /\ loadPc' = [loadPc EXCEPT ![l] = "degraded"]
    /\ pairwiseError' = message
    /\ loadError' = message
    /\ hasData' = FALSE
    /\ scoreMatrix' = NullMatrix
    /\ explanationMatrix' = NullMatrix
    /\ pairwiseLabels' = <<>>
    /\ matrixLoad' = l
    /\ isLoading' = FALSE
    /\ UNCHANGED overlap

\* The inner catch and the finally block.
innerCatch(l, message) ==
    /\ loadPc' = [loadPc EXCEPT ![l] = "degraded"]
    /\ pairwiseError' = message
    /\ scoreMatrix' = NullMatrix
    /\ explanationMatrix' = NullMatrix
    /\ pairwiseLabels' = <<>>
    /\ matrixLoad' = l
    /\ isLoading' = FALSE
    /\ UNCHANGED <<overlap, loadError, hasData>>

\* loadLocalData() up to its first await.  Runs are numbered as they start.
StartLoad(l) ==
    /\ Mounted
    /\ loadPc[l] = "idle"
    /\ \A m \in Loads : m < l => loadPc[m] # "idle"
    /\ loadPc' = [loadPc EXCEPT ![l] = "fetch"]
    /\ isLoading' = TRUE
    /\ loadError' = NullMessage
    /\ pairwiseError' = NullMessage
    /\ overlap' = (overlap \/ \E m \in Loads : loadPc[m] \in InFlight)
    /\ UNCHANGED <<parsedTree, data, dataLoad, hasData, scoreMatrix,
                   explanationMatrix, pairwiseLabels, matrixLoad>>
    /\ UNCHANGED <<treeData, cutThreshold>>
    /\ LoaderFrame

\* await fetch(dataUrl) settles.
TreeFetchSettles(l, outcome) ==
    /\ Mounted
    /\ loadPc[l] = "fetch"
    /\ IF outcome = "ok"
       THEN /\ loadPc' = [loadPc EXCEPT ![l] = "json"]
            /\ UNCHANGED <<overlap, hasData, isLoading, loadError,
                           pairwiseError, scoreMatrix, explanationMatrix,
                           pairwiseLabels, matrixLoad>>
       ELSE outerCatch(l, outcome)
    /\ UNCHANGED <<parsedTree, data, dataLoad, treeData, cutThreshold>>
    /\ LoaderFrame

\* await response.json() rejects: the body is no JSON.
TreeJsonRejects(l) ==
    /\ Mounted
    /\ loadPc[l] = "json"
    /\ outerCatch(l, "SyntaxError")
    /\ UNCHANGED <<parsedTree, data, dataLoad, treeData, cutThreshold>>
    /\ LoaderFrame

\* await response.json() resolves: handleLoadData(parsed), then the two CSV
\* fetches are started.  setData has run when loadData throws.
TreeJsonResolves(l, body) ==
    /\ Mounted
    /\ loadPc[l] = "json"
    /\ parsedTree' = [parsedTree EXCEPT ![l] = body]
    /\ data' = body
    /\ dataLoad' = l
    /\ \E r \in {loadData(body, cutThreshold)} :
          /\ cutThreshold' = r.cutThreshold
          /\ treeData' = treeDataOf(body, r.cutThreshold)
          /\ IF r.threw
             THEN outerCatch(l, "TypeError")
             ELSE /\ hasData' = TRUE
                  /\ loadPc' = [loadPc EXCEPT ![l] = "fetchCsv"]
                  /\ UNCHANGED <<overlap, isLoading, loadError, pairwiseError,
                                 scoreMatrix, explanationMatrix,
                                 pairwiseLabels, matrixLoad>>
    /\ LoaderFrame

\* await Promise.all([fetch(scoresUrl), fetch(explanationsUrl)]) settles.
CsvFetchSettles(l, outcome) ==
    /\ Mounted
    /\ loadPc[l] = "fetchCsv"
    /\ IF outcome = "ok"
       THEN /\ loadPc' = [loadPc EXCEPT ![l] = "text"]
            /\ UNCHANGED <<overlap, hasData, isLoading, loadError,
                           pairwiseError, scoreMatrix, explanationMatrix,
                           pairwiseLabels, matrixLoad>>
       ELSE innerCatch(l, outcome)
    /\ UNCHANGED <<parsedTree, data, dataLoad, treeData, cutThreshold>>
    /\ LoaderFrame

\* await Promise.all([scoresResponse.text(), explanationsResponse.text()])
\* rejects.
CsvTextRejects(l) ==
    /\ Mounted
    /\ loadPc[l] = "text"
    /\ innerCatch(l, "network error")
    /\ UNCHANGED <<parsedTree, data, dataLoad, treeData, cutThreshold>>
    /\ LoaderFrame

\* ... resolves: both files are parsed and aligned onto the trimmed labels
\* of this run's parsed.  (A parsed without labels has stopped the render.)
CsvTextResolves(l, file) ==
    /\ Mounted
    /\ loadPc[l] = "text"
    /\ \E ps \in {parseScoreMatrix(file.scores)},
          pe \in {parseExplanationMatrix(file.explanations)},
          cl \in {trimAll(parsedTree[l].labels.items)} :
          /\ scoreMatrix' =
                 Matrix(alignNumericMatrixByLabels(ps.labels, ps.matrix, cl))
          /\ explanationMatrix' =
                 Matrix(alignTextMatrixByLabels(pe.labels, pe.matrix, cl))
          /\ pairwiseLabels' = cl
    /\ matrixLoad' = l
    /\ isLoading' = FALSE
    /\ loadPc' = [loadPc EXCEPT ![l] = "loaded"]
    /\ UNCHANGED <<overlap, hasData, loadError, pairwiseError>>
    /\ UNCHANGED <<parsedTree, data, dataLoad, treeData, cutThreshold>>
    /\ LoaderFrame

NextLoad ==
    \E l \in Loads :
        \/ StartLoad(l)
        \/ \E outcome \in FetchOutcomes : TreeFetchSettles(l, outcome)
        \/ TreeJsonRejects(l)
        \/ \E body \in TreeArtifacts : TreeJsonResolves(l, body)
        \/ \E outcome \in FetchOutcomes : CsvFetchSettles(l, outcome)
        \/ CsvTextRejects(l)
        \/ \E file \in MatrixFiles : CsvTextResolves(l, file)

SpecLoad == InitLoad /\ [][NextLoad]_vars

(***************************************************************************)
(* C22 *)
(***************************************************************************)
\* Run l ends in the outer catch: its tree fetch failed or answered an HTTP
\* error, or its body was no JSON or made loadData throw.
TreeFailed(l) == loadPc[l] \in {"fetch", "json"} /\ loadPc'[l] = "failed"

\* C22: the step in which fetching or parsing the tree artifact fails leaves
\* loadError set, hasData false, scoreMatrix and explanationMatrix null,
\* pairwiseLabels empty and isLoading false.
C22_BlockingError ==
    [][\A l \in Loads :
          TreeFailed(l) =>
              /\ loadError' # NullMessage
              /\ ~hasData'
              /\ scoreMatrix' = NullMatrix
              /\ explanationMatrix' = NullMatrix
              /\ pairwiseLabels' = <<>>
              /\ ~isLoading']_vars

\* The first run had loaded a tree and both matrices; the second fails on
\* its tree and takes the view and the matrices away.
C22_Witness ==
    /\ loadPc[1] = "loaded"
    /\ loadPc[2] = "failed"
    /\ ~overlap
    /\ matrixLoad = 2
    /\ data = TwoLeaves
    /\ loadError = "HTTP error"
    /\ ~hasData
    /\ scoreMatrix = NullMatrix
    /\ ~isLoading

(***************************************************************************)
(* C23 *)
(***************************************************************************)
\* Run l ends in the inner catch: its tree was stored, a CSV fetch or body
\* failed.
MatricesFailed(l) ==
    loadPc[l] \in {"fetchCsv", "text"} /\ loadPc'[l] = "degraded"

C24_AsStated == data.given => parseAndLoadAccepts(data)

(***************************************************************************)
(* C25 *)
(***************************************************************************)
AllLoaded == \A l \in Loads : loadPc[l] = "loaded"

\* C25: once overlapping runs have all completed with a tree and matrices,
\* the tree data, the matrices and the labels in state are those of the run
\* started last.
C25_AsStated ==
    (overlap /\ AllLoaded) =>
        /\ dataLoad = MaxLoads
        /\ data = parsedTree[MaxLoads]
        /\ matrixLoad = MaxLoads
        /\ pairwiseLabels = trimAll(parsedTree[MaxLoads].labels.items)

(***************************************************************************)
(* C26 *)
(***************************************************************************)
\* C26: whenever a tree and matrices are in state, one run wrote both.
C26_AsStated ==
    (data.given /\ ~scoreMatrix.isNull /\ ~explanationMatrix.isNull) =>
        dataLoad = matrixLoad

(***************************************************************************)
(* C27 *)
(***************************************************************************)
FirstMatch(l) == CHOOSE i \in Matches(l) : \A j \in Matches(l) : i <= j
LastMatch(l) == CHOOSE i \in Matches(l) : \A j \in Matches(l) : j <= i

\* The pairs of target positions whose labels the source holds, one of them
\* more than once.
RepeatedLookups ==
    {rc \in (DOMAIN canonicalLabels) \X (DOMAIN canonicalLabels) :
        /\ Matches(canonicalLabels[rc[1]]) # {}
        /\ Matches(canonicalLabels[rc[2]]) # {}
        /\ \/ Cardinality(Matches(canonicalLabels[rc[1]])) > 1
           \/ Cardinality(Matches(canonicalLabels[rc[2]])) > 1}

RECURSIVE preorder(_, _)
preorder(nodes, x) ==
    IF Len(nodes[x].children) = 0 THEN <<x>>
    ELSE <<x>> \o preorder(nodes, nodes[x].children[1])
             \o preorder(nodes, nodes[x].children[2])

\* C28: the cluster roots are met in pre-order, the k-th of them (from 0)
\* carries id k, the returned count is their number, and a second call with
\* the same threshold on the same tree leaves every id as it is.
C28_PreorderIds ==
    Clustered =>
        LET t == treeData
            again == assignClusters(t, cutThreshold)
        IN  /\ clusterRoots =
                   SelectSeq(preorder(t.nodes, t.root),
                             LAMBDA x : x \in Range(clusterRoots))
            /\ \A k \in DOMAIN clusterRoots : Cid(t, clusterRoots[k]) = k - 1
            /\ clusterCount = Len(clusterRoots)
            /\ again.nodes = t.nodes
            /\ again.clusterId = clusterCount

\* Three leaves in two clusters, the first a leaf that is the root's first
\* child, the second a merge: ids 0 and 1 in that order.
C28_Witness ==
    /\ Clustered /\ N = 3
    /\ Len(clusterRoots) = 2
    /\ clusterCount = 2
    /\ clusterRoots[1] = treeData.nodes[treeData.root].children[1]
    /\ IsLeaf(treeData, clusterRoots[1])
    /\ ~IsLeaf(treeData, clusterRoots[2])
    /\ Cid(treeData, clusterRoots[2]) = 1
    /\ \E x \in Leaves(treeData) : Cid(treeData, x) = 1

(***************************************************************************)
(* ClusterHeatmaps (app/src/components/ClusterHeatmaps.tsx): the cluster   *)
(* selection and the pinned cell, under threshold changes, selections and  *)
(* clicks.  A step is an event handler together with the render and the    *)
(* effects that follow it, which React runs before the next event.         *)
(***************************************************************************)
\* leafIndices.sort((a, b) => a - b), and the sort by clusterId
RECURSIVE sortAscending(_)
sortAscending(xs) ==
    IF xs = <<>> THEN <<>>
    ELSE LET rest == sortAscending(Tail(xs))
             before == SelectSeq(rest, LAMBDA y : y <= Head(xs))
             after == SelectSeq(rest, LAMBDA y : y > Head(xs))
         IN  before \o <<Head(xs)>> \o after

\* The keys of the clusters Map in insertion order: each clusterId once.
RECURSIVE distinctIds(_)
distinctIds(xs) ==
    IF xs = <<>> THEN <<>>
    ELSE LET front == distinctIds(SubSeq(xs, 1, Len(xs) - 1))
             last == xs[Len(xs)]
         IN  IF last \in Range(front) THEN front ELSE Append(front, last)

\* A mutant of collectLeafClusters: one cluster per leaf, its id the leaf's.
collectLeafClustersPerLeaf(t) ==
    LET leafIds == SelectSeq(preorder(t.nodes, t.root),
                             LAMBDA x : Len(t.nodes[x].children) = 0)
        ids == sortAscending(leafIds)
    IN  [k \in DOMAIN ids |-> [clusterId |-> ids[k], leafIndices |-> <<ids[k]>>]]

\* collectLeafClusters(root): the leaves that carry a clusterId, met in
\* traversal order, grouped by clusterId; the groups sorted by clusterId and
\* each group's leaves by index.  No root, no clusters.
collectLeafClusters(t) ==
    IF t.status # "ok" \/ t.root = Undefined THEN <<>>
    ELSE LET leafIds ==
                 SelectSeq(preorder(t.nodes, t.root),
                           LAMBDA x : /\ Len(t.nodes[x].children) = 0
                                      /\ t.nodes[x].clusterId # Undefined)
             ids == sortAscending(distinctIds(
                        [k \in DOMAIN leafIds |->
                            t.nodes[leafIds[k]].clusterId]))
         IN  [k \in DOMAIN ids |->
                 [clusterId |-> ids[k],
                  leafIndices |->
                      sortAscending(SelectSeq(leafIds,
                          LAMBDA x : t.nodes[x].clusterId = ids[k]))]]

\* clusters.filter((cluster) => cluster.leafIndices.length > 1)
selectableClusters(t) ==
    SelectSeq(collectLeafClusters(t), LAMBDA c : Len(c.leafIndices) > 1)

\* selectableClusters.some((cluster) => cluster.clusterId === current)
stillExists(selectable, current) ==
    \E k \in DOMAIN selectable : selectable[k].clusterId = current

\* A mutant of the selection effect: a current id is kept whatever it names.
selectionEffectKeepsCurrent(selectable, current) ==
    IF Len(selectable) = 0 THEN NullId
    ELSE IF current = NullId THEN selectable[1].clusterId
    ELSE current

\* The effect on [selectableClusters]: the selectedClusterId it leaves.
selectionEffect(selectable, current) ==
    IF Len(selectable) = 0 THEN NullId
    ELSE IF current = NullId THEN selectable[1].clusterId
    ELSE IF stillExists(selectable, current) THEN current
    ELSE selectable[1].clusterId

\* No selectable cluster of that id.
NoCluster == [clusterId |-> NullId, leafIndices |-> <<>>]

\* The selectedCluster memo.
selectedClusterOf(selectable, id) ==
    IF id # NullId /\ stillExists(selectable, id)
    THEN selectable[CHOOSE k \in DOMAIN selectable :
                        /\ selectable[k].clusterId = id
                        /\ \A j \in DOMAIN selectable :
                              selectable[j].clusterId = id => k <= j]
    ELSE NoCluster

\* The effect on [selectedClusterId]: the selectedCell it leaves.
clearEffect(previousId, nextId, cell) ==
    IF previousId # nextId THEN NullCell ELSE cell

(***************************************************************************)
(* The heat map specification                                              *)
(***************************************************************************)
\* The most leaves of a dendrogram below.
MaxLeaves == 4

\* Dendrograms of one to four leaves: two pairs merged, a chain of merges,
\* three leaves, two leaves, one leaf.
HeatmapData ==
    {[labels |-> <<1, 2, 3, 4>>,
      linkage |-> << <<0, 1, 1, 2>>, <<2, 3, 1, 2>>, <<4, 5, 2, 4>> >>],
     [labels |-> <<1, 2, 3, 4>>,
      linkage |-> << <<0, 1, 0, 2>>, <<4, 2, 1, 3>>, <<5, 3, 2, 4>> >>],
     [labels |-> <<1, 2, 3>>,
      linkage |-> << <<1, 2, 1, 2>>, <<0, 3, 2, 3>> >>],
     [labels |-> <<1, 2>>, linkage |-> << <<0, 1, 2, 2>> >>],
     [labels |-> <<1>>, linkage |-> <<>>]}

\* useDendrogram's memo for a well-formed dendrogram.
labelledTree(lnk, lbls, threshold) ==
    LET tree == buildTree(lnk, lbls)
    IN  [tree EXCEPT !.nodes = assignClusters(tree, threshold).nodes]

\* App holds a dendrogram and a threshold, with or without the matrices;
\* ClusterHeatmaps is about to render for the first time.
InitHeatmap ==
    /\ pc = "unmounted"
    /\ \E d \in HeatmapData : labels = d.labels /\ linkage = d.linkage
    /\ cutThreshold \in Thresholds
    /\ treeData = labelledTree(linkage, labels, cutThreshold)
    /\ clusterCount = 0
    /\ clusterRoots = <<>>
    /\ prevThreshold = Undefined
    /\ prevTreeData = NoTree
    /\ prevCount = 0
    /\ MatrixIdle
    /\ ExplanationIdle
    /\ loadPc = <<>>
    /\ parsedTree = <<>>
    /\ overlap = FALSE
    /\ data = NoData
    /\ dataLoad = 0
    /\ hasData = TRUE
    /\ isLoading = FALSE
    /\ loadError = NullMessage
    /\ pairwiseError = NullMessage
    /\ \E m \in {NullMatrix, Matrix(<<>>)} :
          scoreMatrix = m /\ explanationMatrix = m
    /\ pairwiseLabels = <<>>
    /\ matrixLoad = 0
    /\ selectedClusterId = NullId
    /\ selectedCell = NullCell

HeatmapFrame ==
    /\ UNCHANGED <<labels, linkage, clusterCount, clusterRoots, prevTreeData,
                   prevCount>>
    /\ UNCHANGED <<matrixVars, explanationVars, loaderVars>>

\* The canvas and the Select are rendered.
CanvasShown ==
    /\ pc = "mounted"
    /\ ~scoreMatrix.isNull
    /\ ~explanationMatrix.isNull
    /\ selectedClusterOf(selectableClusters(treeData), selectedClusterId)
           # NoCluster

\* The first render and its two effects.
Mount ==
    /\ pc = "unmounted"
    /\ pc' = "mounted"
    /\ selectedClusterId' =
           selectionEffect(selectableClusters(treeData), selectedClusterId)
    /\ selectedCell' = NullCell
    /\ UNCHANGED <<treeData, cutThreshold, prevThreshold>>
    /\ HeatmapFrame

\* setCutThreshold(t): the memo gives a new root, the selection effect runs,
\* and the clearing effect runs when the selected id has changed.
ThresholdChange(t) ==
    /\ pc = "mounted"
    /\ t # cutThreshold
    /\ cutThreshold' = t
    /\ prevThreshold' = cutThreshold
    /\ treeData' = labelledTree(linkage, labels, t)
    /\ selectedClusterId' =
           selectionEffect(selectableClusters(treeData'), selectedClusterId)
    /\ selectedCell' =
           clearEffect(selectedClusterId, selectedClusterId', selectedCell)
    /\ UNCHANGED pc
    /\ HeatmapFrame

\* onValueChange of the Select: an item of a cluster of one leaf is disabled.
SelectCluster(id) ==
    /\ CanvasShown
    /\ stillExists(selectableClusters(treeData), id)
    /\ id # selectedClusterId
    /\ selectedClusterId' = id
    /\ selectedCell' = clearEffect(selectedClusterId, id, selectedCell)
    /\ UNCHANGED <<pc, treeData, cutThreshold, prevThreshold>>
    /\ HeatmapFrame

\* handleCanvasClick on the cell at (rowPos, colPos) of the grid.
CanvasClick(rowPos, colPos) ==
    /\ CanvasShown
    /\ \E c \in {selectedClusterOf(selectableClusters(treeData),
                                   selectedClusterId)} :
          /\ rowPos \in 0..(Len(c.leafIndices) - 1)
          /\ colPos \in 0..(Len(c.leafIndices) - 1)
          /\ selectedCell' = [given |-> TRUE,
                              rowIdx |-> c.leafIndices[rowPos + 1],
                              colIdx |-> c.leafIndices[colPos + 1]]
    /\ UNCHANGED <<pc, treeData, cutThreshold, prevThreshold,
                   selectedClusterId>>
    /\ HeatmapFrame

NextHeatmap ==
    \/ Mount
    \/ \E t \in Thresholds : ThresholdChange(t)
    \/ \E id \in 0..(MaxLeaves - 1) : SelectCluster(id)
    \/ \E rowPos, colPos \in 0..(MaxLeaves - 1) : CanvasClick(rowPos, colPos)

SpecHeatmap == InitHeatmap /\ [][NextHeatmap]_vars

(***************************************************************************)
(* C29 *)
(***************************************************************************)
SelectedLeaves ==
    Range(selectedClusterOf(selectableClusters(treeData),
                            selectedClusterId).leafIndices)

\* C29: a pinned cell has its row and column leaf inside the currently
\* selected cluster.
C29_AsStated ==
    (pc = "mounted" /\ selectedCell.given) =>
        /\ selectedCell.rowIdx \in SelectedLeaves
        /\ selectedCell.colIdx \in SelectedLeaves

(***************************************************************************)
(* C30 *)
(***************************************************************************)
SelectableIds(t) ==
    {selectableClusters(t)[k].clusterId : k \in DOMAIN selectableClusters(t)}

\* The clusters of more than one leaf, from the labelled tree itself.
LargeClusters(t) ==
    {c \in {Cid(t, x) : x \in Leaves(t)} :
        Cardinality({x \in Leaves(t) : Cid(t, x) = c}) > 1}

\* C30: after every step (mount, threshold change, selection, click)
\* selectedClusterId is null exactly when no current cluster has more than
\* one leaf and is otherwise the id of such a cluster; when the id before the
\* step names no such cluster, it is the lowest such id.
C30_Selection ==
    [][LET large == LargeClusters(treeData')
       IN  /\ (selectedClusterId' = NullId) <=> (large = {})
           /\ selectedClusterId' # NullId => selectedClusterId' \in large
           /\ (selectedClusterId \notin large /\ large # {}) =>
                  \A c \in large : selectedClusterId' <= c]_vars

\* Leaves 1 and 2 were cluster 1 (leaf 0 alone being cluster 0) at threshold
\* 1, the only cluster to select; at threshold 2 all three leaves are cluster
\* 0 and the selection has fallen back to it.
C30_Witness ==
    /\ pc = "mounted"
    /\ linkage = << <<1, 2, 1, 2>>, <<0, 3, 2, 3>> >>
    /\ prevThreshold = 1
    /\ cutThreshold = 2
    /\ SelectableIds(labelledTree(linkage, labels, prevThreshold)) = {1}
    /\ LargeClusters(treeData) = {0}
    /\ selectedClusterId = 0

====
